---- MODULE Spec2Model ----
(***************************************************************************)
(* A model of the SendZen WhatsApp SDK (wa-api-message-node.js): the       *)
(* message formatter of WhatsAppService, the template validator of        *)
(* TemplateService, and the WaMessageApi object that owns the              *)
(* configuration and the transport client.                                 *)
(*                                                                         *)
(* JavaScript objects are records; an optional property that is absent is  *)
(* a key missing from the record's DOMAIN.  Phone numbers and language     *)
(* codes are sequences of one-character strings, so that the regular       *)
(* expressions of the source can be evaluated character by character.      *)
(* Other strings are opaque and only compared ("" is the falsy string).    *)
(* A function that may throw returns the sequence of errors it threw:      *)
(* <<>> when it returns normally, <<e>> when it throws e.                   *)
(***************************************************************************)
EXTENDS Integers, Sequences, FiniteSets, TLC

VARIABLES
  config,            \* WaMessageApi.config
  developerOptions,  \* WaMessageApi.developerOptions
  httpClient,        \* WaMessageApi.httpClient (the HttpClient's own fields)
  call,              \* the send call that has run and not yet settled, or NoCall
  requests,          \* the requests that call handed to the transport
  now,               \* the clock Date.now() reads
  previous           \* what the last call that settled had sent (an observer)

vars == <<config, developerOptions, httpClient, call, requests, now, previous>>

(***************************************************************************)
(* Bounds of the model.                                                    *)
(***************************************************************************)
\* Longest template component list drawn from the whole component alphabet.
MaxComponents == 3
\* Longest run of quick-reply buttons built with increasing indices.
MaxQuickReplyRun == 11
\* Longest interactive button list.
MaxInteractiveButtons == 4
\* The clock is observed from 0 up to this value
MaxClock == 1
MaxPhoneLength == 16

(***************************************************************************)
(* Characters and the two syntactic predicates.                            *)
(***************************************************************************)
NonZeroDigit == {"1", "2", "3", "4", "5", "6", "7", "8", "9"}
Digit == {"0"} \cup NonZeroDigit
LowerLetter ==
  {"a", "b", "c", "d", "e", "f", "g", "h", "i", "j", "k", "l", "m",
   "n", "o", "p", "q", "r", "s", "t", "u", "v", "w", "x", "y", "z"}
UpperLetter ==
  {"A", "B", "C", "D", "E", "F", "G", "H", "I", "J", "K", "L", "M",
   "N", "O", "P", "Q", "R", "S", "T", "U", "V", "W", "X", "Y", "Z"}

\* The pattern with the country prefix optional
phonePattern_OptionalPrefix(phone) ==
  \E k \in 0..4 :
    /\ Len(phone) = k + 10
    /\ \A i \in 1..k : phone[i] \in Digit
    /\ k > 0 => phone[1] \in NonZeroDigit
    /\ phone[k + 1] \in NonZeroDigit
    /\ \A i \in (k + 2)..(k + 10) : phone[i] \in Digit

\* /^[1-9][0-9]{0,3}[1-9][0-9]{9}$/.test(phone): k is the number of digits
\* matched by [0-9]{0,3}.
phonePattern(phone) ==
  \E k \in 0..3 :
    /\ Len(phone) = k + 11
    /\ phone[1] \in NonZeroDigit
    /\ \A i \in 2..(k + 1) : phone[i] \in Digit
    /\ phone[k + 2] \in NonZeroDigit
    /\ \A i \in (k + 3)..(k + 11) : phone[i] \in Digit


validatePhoneNumber(phone) == phonePattern(phone) /\ Len(phone) <= 15

\* The pattern with the letter case ignored, as under the i flag
validateLanguageCode_IgnoresCase(langCode) ==
  /\ Len(langCode) = 5
  /\ \A i \in {1, 2, 4, 5} : langCode[i] \in LowerLetter \cup UpperLetter
  /\ langCode[3] = "_"

\* /^[a-z]{2}_[A-Z]{2}$/.test(langCode)
validateLanguageCode(langCode) ==
  /\ Len(langCode) = 5
  /\ langCode[1] \in LowerLetter
  /\ langCode[2] \in LowerLetter
  /\ langCode[3] = "_"
  /\ langCode[4] \in UpperLetter
  /\ langCode[5] \in UpperLetter

(***************************************************************************)
(* JavaScript helpers.                                                     *)
(***************************************************************************)
Has(obj, key) == key \in DOMAIN obj
\* if (obj.key) for a string-valued optional property
Truthy(obj, key) == Has(obj, key) /\ obj[key] # ""
\* [...].map(f) over a sequence
Map(seq, f(_)) == [i \in 1..Len(seq) |-> f(seq[i])]
\* new Set(seq).size
SetSize(seq) == Cardinality({seq[i] : i \in 1..Len(seq)})
\* A value that may be undefined: <<>> is undefined, <<v>> is v.
Undefined == <<>>
Defined(v) == <<v>>
\* {}: the object with no property
EmptyObject == [key \in {} |-> key]

(***************************************************************************)
(* Outcomes of a service call: it threw an error before reaching the      *)
(* transport, or it handed one request to BaseService.post.                *)
(***************************************************************************)
Throw(error) == [status |-> "threw", error |-> error, posts |-> <<>>]
\* BaseService.post(endpoint, data, options)
post(endpoint, data, options) ==
  [status |-> "posted",
   posts |-> <<[method |-> "POST", endpoint |-> endpoint, data |-> data,
                options |-> options]>>]

(***************************************************************************)
(* types/index.ts: validateInteractiveButtons.                             *)
(***************************************************************************)
ButtonId(button) == button.id
ButtonTitle(button) == button.title

validateInteractiveButtons(buttons) ==
  IF Len(buttons) = 0
  THEN <<[message |-> "Interactive message must have at least one button"]>>
  ELSE IF Len(buttons) > 3
  THEN <<[message |-> "Interactive message can have maximum 3 buttons"]>>
  ELSE IF SetSize(Map(buttons, ButtonId)) # Len(buttons)
  THEN <<[message |-> "Interactive message buttons must have unique IDs"]>>
  ELSE IF SetSize(Map(buttons, ButtonTitle)) # Len(buttons)
  THEN <<[message |-> "Interactive message buttons must have unique titles"]>>
  ELSE <<>>

(***************************************************************************)
(* services/whatsapp-service.ts: the message formatter.  `message` is a    *)
(* WhatsAppMessage; `options` is Undefined or Defined(RequestOptions).     *)
(***************************************************************************)
\* The locator rule shared by the four media branches of sendMessage:
\* link if truthy, else id if truthy, else throw.  `fixed` holds the sibling
\* properties copied before the locator (filename, caption) when defined.
MediaData(media, fixed) ==
  IF Truthy(media, "link") THEN Defined(fixed @@ [link |-> media.link])
  ELSE IF Truthy(media, "id") THEN Defined(fixed @@ [id |-> media.id])
  ELSE Undefined

\* The properties among `keys` that `obj` defines, copied.
Pick(obj, keys) == [k \in (DOMAIN obj) \cap keys |-> obj[k]]

\* The recipient under lowercase `to`
formattedMessage_LowercaseTo(message) ==
  [from |-> message.from, to |-> message.to, type |-> message.type]

\* const formattedMessage = {from, To, type}: the recipient key is capitalized
formattedMessage(message) ==
  [from |-> message.from, To |-> message.to, type |-> message.type]

sendMessage(message, options) ==
  IF ~validatePhoneNumber(message.from)
  THEN Throw([message |-> "Invalid 'from' phone number format",
              phone |-> message.from])
  ELSE IF ~validatePhoneNumber(message.to)
  THEN Throw([message |-> "Invalid 'to' phone number format",
              phone |-> message.to])
  ELSE
    IF message.type = "text"
    THEN post("", formattedMessage(message) @@
                [text |-> [body |-> message.text.body,
                           preview_url |->
                             (Has(message.text, "preview_url")
                                /\ message.text.preview_url)]],
              options)
    ELSE IF message.type = "image"
    THEN LET imageData == MediaData(message.image,
                                    Pick(message.image, {"caption"}))
         IN IF imageData = Undefined
            THEN Throw([message |-> "Image message must have either link or id"])
            ELSE post("", formattedMessage(message) @@ [image |-> imageData[1]], options)
    ELSE IF message.type = "document"
    THEN LET documentData == MediaData(message.document,
                               Pick(message.document, {"filename", "caption"}))
         IN IF documentData = Undefined
            THEN Throw([message |-> "Document message must have either link or id"])
            ELSE post("", formattedMessage(message) @@ [document |-> documentData[1]],
                      options)
    ELSE IF message.type = "video"
    THEN LET videoData == MediaData(message.video,
                                    Pick(message.video, {"caption"}))
         IN IF videoData = Undefined
            THEN Throw([message |-> "Video message must have either link or id"])
            ELSE post("", formattedMessage(message) @@ [video |-> videoData[1]], options)
    ELSE IF message.type = "audio"
    THEN LET audioData == MediaData(message.audio, EmptyObject)
         IN IF audioData = Undefined
            THEN Throw([message |-> "Audio message must have either link or id"])
            ELSE post("", formattedMessage(message) @@ [audio |-> audioData[1]], options)
    ELSE IF message.type = "interactive"
    THEN post("", formattedMessage(message) @@ [interactive |-> message.interactive],
              options)
    ELSE post("", formattedMessage(message), options)

(***************************************************************************)
(* core/sendzen-sdk.ts: what the services read from the SDK object.        *)
(***************************************************************************)
getFromNumber == config.from

\* payloadData.options, which every convenience sender passes on
OptionsOf(payloadData) ==
  IF Has(payloadData, "options") THEN Defined(payloadData.options)
  ELSE Undefined

(***************************************************************************)
(* services/whatsapp-service.ts: the convenience senders.  Each builds a   *)
(* message whose sender is the configured number and calls sendMessage.    *)
(***************************************************************************)
sendTextMessage(payloadData) ==
  sendMessage([type |-> "text", from |-> getFromNumber, to |-> payloadData.to,
               text |-> [body |-> payloadData.text,
                         preview_url |-> (Has(payloadData, "previewUrl")
                                            /\ payloadData.previewUrl)]],
              OptionsOf(payloadData))

\* The eight media senders differ in the message type, in the locator they
\* set (link or id) and in the sibling properties they copy.
MediaMessage(type, media, payloadData) ==
  [type |-> type, from |-> getFromNumber, to |-> payloadData.to]
    @@ (type :> media)

sendImageMessage(payloadData) ==
  sendMessage(MediaMessage("image",
                [link |-> payloadData.imageUrl]
                  @@ Pick(payloadData, {"caption"}), payloadData),
              OptionsOf(payloadData))

sendImageMessageWithId(payloadData) ==
  sendMessage(MediaMessage("image",
                [id |-> payloadData.mediaId]
                  @@ Pick(payloadData, {"caption"}), payloadData),
              OptionsOf(payloadData))

sendDocumentMessage(payloadData) ==
  sendMessage(MediaMessage("document",
                [link |-> payloadData.documentUrl]
                  @@ Pick(payloadData, {"filename", "caption"}), payloadData),
              OptionsOf(payloadData))

sendDocumentMessageWithId(payloadData) ==
  sendMessage(MediaMessage("document",
                [id |-> payloadData.mediaId]
                  @@ Pick(payloadData, {"filename", "caption"}), payloadData),
              OptionsOf(payloadData))

sendVideoMessage(payloadData) ==
  sendMessage(MediaMessage("video",
                [link |-> payloadData.videoUrl]
                  @@ Pick(payloadData, {"caption"}), payloadData),
              OptionsOf(payloadData))

sendVideoMessageWithId(payloadData) ==
  sendMessage(MediaMessage("video",
                [id |-> payloadData.mediaId]
                  @@ Pick(payloadData, {"caption"}), payloadData),
              OptionsOf(payloadData))

sendAudioMessage(payloadData) ==
  sendMessage(MediaMessage("audio", [link |-> payloadData.audioUrl],
                           payloadData),
              OptionsOf(payloadData))

sendAudioMessageWithId(payloadData) ==
  sendMessage(MediaMessage("audio", [id |-> payloadData.mediaId],
                           payloadData),
              OptionsOf(payloadData))

\* buttons.map(button => ({type: 'reply', reply: {id, title}}))
ReplyButton(button) ==
  [type |-> "reply", reply |-> [id |-> button.id, title |-> button.title]]

\* if (payloadData.footerText) message.interactive.footer = {text: ...}
FooterOf(payloadData) ==
  IF Truthy(payloadData, "footerText")
  THEN [footer |-> [text |-> payloadData.footerText]]
  ELSE EmptyObject


\* The interactive senders with the message sent before the buttons are
\* looked at: the phone numbers are checked first
InteractiveSend_PhonesFirst(payloadData, header) ==
  LET thrown == validateInteractiveButtons(payloadData.buttons)
      sent == sendMessage(
                [type |-> "interactive", from |-> getFromNumber,
                 to |-> payloadData.to,
                 interactive |->
                   [type |-> "button",
                    body |-> [text |-> payloadData.bodyText],
                    action |->
                      [buttons |-> Map(payloadData.buttons, ReplyButton)]]
                     @@ header @@ FooterOf(payloadData)],
                OptionsOf(payloadData))
  IN
  IF sent.status = "threw" THEN sent
  ELSE IF thrown # <<>> THEN Throw(thrown[1])
  ELSE sent

\* The body shared by the seven interactive senders: validate the buttons,
\* build the message around `header` (a record holding the header property,
\* or no property at all), add the optional footer, call sendMessage.
InteractiveSend(payloadData, header) ==
  LET thrown == validateInteractiveButtons(payloadData.buttons) IN
  IF thrown # <<>> THEN Throw(thrown[1])
  ELSE sendMessage(
         [type |-> "interactive", from |-> getFromNumber,
          to |-> payloadData.to,
          interactive |->
            [type |-> "button",
             body |-> [text |-> payloadData.bodyText],
             action |-> [buttons |-> Map(payloadData.buttons, ReplyButton)]]
              @@ header @@ FooterOf(payloadData)],
         OptionsOf(payloadData))

sendInteractiveMessage(payloadData) ==
  InteractiveSend(payloadData,
    IF Truthy(payloadData, "headerText")
    THEN [header |-> [type |-> "text", text |-> payloadData.headerText]]
    ELSE EmptyObject)

sendInteractiveMessageWithImageHeader(payloadData) ==
  InteractiveSend(payloadData,
    [header |-> [type |-> "image", image |-> [link |-> payloadData.imageUrl]]])

sendInteractiveMessageWithImageIdHeader(payloadData) ==
  InteractiveSend(payloadData,
    [header |-> [type |-> "image", image |-> [id |-> payloadData.mediaId]]])

sendInteractiveMessageWithVideoHeader(payloadData) ==
  InteractiveSend(payloadData,
    [header |-> [type |-> "video", video |-> [link |-> payloadData.videoUrl]]])

sendInteractiveMessageWithVideoIdHeader(payloadData) ==
  InteractiveSend(payloadData,
    [header |-> [type |-> "video", video |-> [id |-> payloadData.mediaId]]])

sendInteractiveMessageWithDocumentHeader(payloadData) ==
  InteractiveSend(payloadData,
    [header |-> [type |-> "document",
                 document |-> [link |-> payloadData.documentUrl]]])

sendInteractiveMessageWithDocumentIdHeader(payloadData) ==
  InteractiveSend(payloadData,
    [header |-> [type |-> "document",
                 document |-> [id |-> payloadData.mediaId]]])

(***************************************************************************)
(* services/template-service.ts: the component constructors.              *)
(***************************************************************************)
TextParameter(text) == [type |-> "text", text |-> text]

createHeaderTextComponent(text) ==
  [type |-> "header", parameters |-> <<TextParameter(text)>>]

createHeaderImageComponent(imageUrl) ==
  [type |-> "header",
   parameters |-> <<[type |-> "image", image |-> [link |-> imageUrl]]>>]

createHeaderImageIdComponent(mediaId) ==
  [type |-> "header",
   parameters |-> <<[type |-> "image", image |-> [id |-> mediaId]]>>]


\* A variant that lists the text parameters in reverse order
createBodyComponent_ReversesParameters(textParameters) ==
  [type |-> "body",
   parameters |->
     [i \in 1..Len(textParameters) |->
        TextParameter(textParameters[Len(textParameters) + 1 - i])]]

createBodyComponent(textParameters) ==
  [type |-> "body", parameters |-> Map(textParameters, TextParameter)]

createFooterComponent(textParameters) ==
  [type |-> "footer", parameters |-> Map(textParameters, TextParameter)]

createQuickReplyButtonComponent(index, text) ==
  [type |-> "button", sub_type |-> "quick_reply", index |-> index,
   parameters |-> <<TextParameter(text)>>]

createPhoneNumberButtonComponent(index, phoneNumber) ==
  [type |-> "button", sub_type |-> "phone_number", index |-> index,
   parameters |-> <<TextParameter(phoneNumber)>>]

createUrlButtonComponent(index, url) ==
  [type |-> "button", sub_type |-> "url", index |-> index,
   parameters |-> <<TextParameter(url)>>]

createCopyCodeButtonComponent(index, code) ==
  [type |-> "button", sub_type |-> "copy_code", index |-> index,
   parameters |-> <<TextParameter(code)>>]

(***************************************************************************)
(* services/template-service.ts: the validator.                           *)
(***************************************************************************)
IsButton(comp) == comp.type = "button"
IsQuickReply(btn) == Has(btn, "sub_type") /\ btn.sub_type = "quick_reply"
IsPhoneNumber(btn) == Has(btn, "sub_type") /\ btn.sub_type = "phone_number"
IsUrl(btn) == Has(btn, "sub_type") /\ btn.sub_type = "url"
IsCopyCode(btn) == Has(btn, "sub_type") /\ btn.sub_type = "copy_code"

\* btn.index, which may be undefined
IndexOf(btn) == IF Has(btn, "index") THEN Defined(btn.index) ELSE Undefined

\* btn.parameters?.[0]?.text, which may be undefined
FirstTextOf(btn) ==
  IF /\ Has(btn, "parameters")
     /\ Len(btn.parameters) > 0
     /\ Has(btn.parameters[1], "text")
  THEN Defined(btn.parameters[1].text)
  ELSE Undefined

\* quickReplyButtons.length > 10
QuickReplyLimitExceeded_AtTen(quickReplyButtons) == Len(quickReplyButtons) >= 10

QuickReplyLimitExceeded(quickReplyButtons) == Len(quickReplyButtons) > 10

\* hasQuickReply && (hasPhoneOrUrl || hasCopyCode)
QuickReplyCombined_IgnoresCopyCode(hasQuickReply, hasPhoneOrUrl, hasCopyCode) ==
  hasQuickReply /\ hasPhoneOrUrl

QuickReplyCombined(hasQuickReply, hasPhoneOrUrl, hasCopyCode) ==
  hasQuickReply /\ (hasPhoneOrUrl \/ hasCopyCode)

\* new Set(indices).size !== indices.length
IndicesRepeat_NeverChecked(buttonComponents) == FALSE

IndicesRepeat(buttonComponents) ==
  LET indices == Map(buttonComponents, IndexOf) IN
  SetSize(indices) # Len(indices)

\* new Set(buttonTexts).size !== buttonTexts.length
TextsRepeat_QuickRepliesOnly(buttonComponents) ==
  LET buttonTexts == Map(SelectSeq(buttonComponents, IsQuickReply), FirstTextOf)
  IN SetSize(buttonTexts) # Len(buttonTexts)

TextsRepeat(buttonComponents) ==
  LET buttonTexts == Map(buttonComponents, FirstTextOf) IN
  SetSize(buttonTexts) # Len(buttonTexts)

\* The validator with the index check moved before the combination checks
validateButtonComponents_IndexFirst(buttonComponents) ==
  LET quickReplyButtons == SelectSeq(buttonComponents, IsQuickReply)
      phoneNumberButtons == SelectSeq(buttonComponents, IsPhoneNumber)
      urlButtons == SelectSeq(buttonComponents, IsUrl)
      copyCodeButtons == SelectSeq(buttonComponents, IsCopyCode)
      hasQuickReply == Len(quickReplyButtons) > 0
      hasPhoneOrUrl == Len(phoneNumberButtons) > 0 \/ Len(urlButtons) > 0
      hasCopyCode == Len(copyCodeButtons) > 0
  IN
  IF QuickReplyLimitExceeded(quickReplyButtons)
  THEN <<[message |-> "Maximum 10 quick reply buttons allowed"]>>
  ELSE IF Len(phoneNumberButtons) > 1
  THEN <<[message |-> "Maximum 1 phone number button allowed"]>>
  ELSE IF Len(urlButtons) > 1
  THEN <<[message |-> "Maximum 1 URL button allowed"]>>
  ELSE IF Len(copyCodeButtons) > 1
  THEN <<[message |-> "Maximum 1 copy code button allowed"]>>
  ELSE IF IndicesRepeat(buttonComponents)
  THEN <<[message |-> "Button indices must be unique"]>>
  ELSE IF QuickReplyCombined(hasQuickReply, hasPhoneOrUrl, hasCopyCode)
  THEN <<[message |->
            "Quick reply buttons cannot be combined with other button types"]>>
  ELSE IF hasCopyCode /\ hasPhoneOrUrl
  THEN <<[message |->
      "Copy code buttons cannot be combined with phone number or URL buttons"]>>
  ELSE IF TextsRepeat(buttonComponents)
  THEN <<[message |-> "Button texts must be unique"]>>
  ELSE <<>>

validateButtonComponents(buttonComponents) ==
  LET quickReplyButtons == SelectSeq(buttonComponents, IsQuickReply)
      phoneNumberButtons == SelectSeq(buttonComponents, IsPhoneNumber)
      urlButtons == SelectSeq(buttonComponents, IsUrl)
      copyCodeButtons == SelectSeq(buttonComponents, IsCopyCode)
      hasQuickReply == Len(quickReplyButtons) > 0
      hasPhoneOrUrl == Len(phoneNumberButtons) > 0 \/ Len(urlButtons) > 0
      hasCopyCode == Len(copyCodeButtons) > 0
  IN
  IF QuickReplyLimitExceeded(quickReplyButtons)
  THEN <<[message |-> "Maximum 10 quick reply buttons allowed"]>>
  ELSE IF Len(phoneNumberButtons) > 1
  THEN <<[message |-> "Maximum 1 phone number button allowed"]>>
  ELSE IF Len(urlButtons) > 1
  THEN <<[message |-> "Maximum 1 URL button allowed"]>>
  ELSE IF Len(copyCodeButtons) > 1
  THEN <<[message |-> "Maximum 1 copy code button allowed"]>>
  ELSE IF QuickReplyCombined(hasQuickReply, hasPhoneOrUrl, hasCopyCode)
  THEN <<[message |->
            "Quick reply buttons cannot be combined with other button types"]>>
  ELSE IF hasCopyCode /\ hasPhoneOrUrl
  THEN <<[message |->
      "Copy code buttons cannot be combined with phone number or URL buttons"]>>
  ELSE IF IndicesRepeat(buttonComponents)
  THEN <<[message |-> "Button indices must be unique"]>>
  ELSE IF TextsRepeat(buttonComponents)
  THEN <<[message |-> "Button texts must be unique"]>>
  ELSE <<>>

\* !component.parameters is forgotten: only an empty list counts
LacksParameters_EmptyListOnly(component) ==
  /\ component.type # "button"
  /\ Has(component, "parameters")
  /\ Len(component.parameters) = 0

\* component.type !== 'button' && (!component.parameters || length === 0)
LacksParameters(component) ==
  /\ component.type # "button"
  /\ (~Has(component, "parameters") \/ Len(component.parameters) = 0)

\* The validator with the parameter loop moved before the button checks
validateTemplateComponents_ParametersFirst(components) ==
  LET buttonComponents == SelectSeq(components, IsButton)
      lacking == SelectSeq(components, LacksParameters)
  IN
  IF Len(lacking) > 0
  THEN <<[message |-> "component must have parameters",
          componentType |-> lacking[1].type]>>
  ELSE IF Len(buttonComponents) > 0
  THEN validateButtonComponents(buttonComponents)
  ELSE <<>>

validateTemplateComponents(components) ==
  LET buttonComponents == SelectSeq(components, IsButton)
      thrown == IF Len(buttonComponents) > 0
                THEN validateButtonComponents(buttonComponents)
                ELSE <<>>
      lacking == SelectSeq(components, LacksParameters)
  IN
  IF thrown # <<>> THEN thrown
  ELSE IF Len(lacking) > 0
  THEN <<[message |-> "component must have parameters",
          componentType |-> lacking[1].type]>>
  ELSE <<>>

(***************************************************************************)
(* services/template-service.ts: sendTemplateMessage.                      *)
(***************************************************************************)
\* The message with the components in reverse order
TemplateMessageOf_ReversesComponents(payloadData) ==
  [type |-> "template", from |-> getFromNumber, to |-> payloadData.to,
   template |->
     [name |-> payloadData.templateName, lang_code |-> payloadData.langCode]
       @@ (IF Has(payloadData, "components")
           THEN [components |->
                   [i \in 1..Len(payloadData.components) |->
                      payloadData.components[
                        Len(payloadData.components) + 1 - i]]]
           ELSE EmptyObject)]


\* The template message with an empty component list left out
TemplateMessageOf_DropsEmptyComponents(payloadData) ==
  [type |-> "template", from |-> getFromNumber, to |-> payloadData.to,
   template |->
     [name |-> payloadData.templateName, lang_code |-> payloadData.langCode]
       @@ (IF Has(payloadData, "components") /\ payloadData.components # <<>>
           THEN [components |-> payloadData.components]
           ELSE EmptyObject)]

\* const message: TemplateMessage = {type, from, to, template: {name,
\* lang_code, components}}; a components property that is undefined is not
\* serialized
TemplateMessageOf(payloadData) ==
  [type |-> "template", from |-> getFromNumber, to |-> payloadData.to,
   template |->
     [name |-> payloadData.templateName, lang_code |-> payloadData.langCode]
       @@ Pick(payloadData, {"components"})]

\* sendTemplateMessage with the request handed to the transport before the
\* components are validated
sendTemplateMessage_PostsBeforeValidating(payloadData) ==
  LET posted == post("",
                  TemplateMessageOf(payloadData),
                  OptionsOf(payloadData))
      thrown == IF Has(payloadData, "components")
                THEN validateTemplateComponents(payloadData.components)
                ELSE <<>>
  IN
  IF thrown # <<>>
  THEN [status |-> "threw", error |-> thrown[1], posts |-> posted.posts]
  ELSE posted


\* sendTemplateMessage with the recipient checked before the sender
sendTemplateMessage_RecipientFirst(payloadData) ==
  IF ~validatePhoneNumber(payloadData.to)
  THEN Throw([message |-> "Invalid 'to' phone number format",
              phone |-> payloadData.to])
  ELSE IF ~validatePhoneNumber(getFromNumber)
  THEN Throw([message |-> "Invalid 'from' phone number format",
              phone |-> getFromNumber])
  ELSE IF ~validateLanguageCode(payloadData.langCode)
  THEN Throw([message |-> "Invalid language code format",
              langCode |-> payloadData.langCode])
  ELSE
    LET thrown == IF Has(payloadData, "components")
                  THEN validateTemplateComponents(payloadData.components)
                  ELSE <<>>
    IN
    IF thrown # <<>> THEN Throw(thrown[1])
    ELSE post("",
              TemplateMessageOf(payloadData),
              OptionsOf(payloadData))

sendTemplateMessage(payloadData) ==
  IF ~validatePhoneNumber(getFromNumber)
  THEN Throw([message |-> "Invalid 'from' phone number format",
              phone |-> getFromNumber])
  ELSE IF ~validatePhoneNumber(payloadData.to)
  THEN Throw([message |-> "Invalid 'to' phone number format",
              phone |-> payloadData.to])
  ELSE IF ~validateLanguageCode(payloadData.langCode)
  THEN Throw([message |-> "Invalid language code format",
              langCode |-> payloadData.langCode])
  ELSE
    LET thrown == IF Has(payloadData, "components")
                  THEN validateTemplateComponents(payloadData.components)
                  ELSE <<>>
    IN
    IF thrown # <<>> THEN Throw(thrown[1])
    ELSE post("",
              TemplateMessageOf(payloadData),
              OptionsOf(payloadData))

(***************************************************************************)
(* core/sendzen-sdk.ts and the HttpClient: construction and updates.       *)
(***************************************************************************)
BaseUrl == "https://api.sendzen.io/v1/messages"
DefaultTimeout == 30000

\* {...a, ...b}: the properties of b win
Spread(a, b) == b @@ a

Includes(logs, type) == \E i \in 1..Len(logs) : logs[i] = type

DefaultDeveloperOptions ==
  [logs |-> <<>>, logLevel |-> "info", logFormat |-> "pretty",
   enableRequestLogging |-> FALSE, enableResponseLogging |-> FALSE,
   enableErrorLogging |-> FALSE, enableDebugLogging |-> FALSE]

\* `options` is Undefined or Defined(DeveloperOptions)
initializeDeveloperOptions(options) ==
  IF options = Undefined THEN DefaultDeveloperOptions
  ELSE IF Has(options[1], "logs") /\ Len(options[1].logs) > 0
  THEN Spread(Spread(DefaultDeveloperOptions, options[1]),
              [enableRequestLogging |-> Includes(options[1].logs, "request"),
               enableResponseLogging |-> Includes(options[1].logs, "response"),
               enableErrorLogging |-> Includes(options[1].logs, "error"),
               enableDebugLogging |-> Includes(options[1].logs, "debug")])
  ELSE Spread(DefaultDeveloperOptions, options[1])

\* new HttpClient(baseUrl, apiKey, timeout, developerOptions): its fields and
\* the defaults of the axios instance it creates
NewHttpClient(baseUrl, apiKey, timeout, options) ==
  [baseUrl |-> baseUrl, apiKey |-> apiKey, defaultTimeout |-> timeout,
   developerOptions |-> options,
   client |-> [baseURL |-> baseUrl, timeout |-> timeout,
               headers |-> [ContentType |-> "application/json",
                            Authorization |-> "Bearer " \o apiKey,
                            UserAgent |-> "SendZen-SDK/1.0.0"]]]

\* HttpClient.buildRequestConfig(options)
buildRequestConfig(options) ==
  IF options = Undefined THEN EmptyObject
  ELSE Pick(options[1], {"headers"})
         @@ (IF Has(options[1], "timeout") /\ options[1].timeout # 0
             THEN [timeout |-> options[1].timeout]
             ELSE EmptyObject)

\* HttpClient.post(url, data, options): the request the axios instance
\* receives, its per-request configuration merged over the instance defaults
HttpClientPost(client, url, data, options) ==
  LET requestConfig == buildRequestConfig(options) IN
  [method |-> "POST", baseURL |-> client.client.baseURL, url |-> url,
   data |-> data,
   timeout |-> IF Has(requestConfig, "timeout") THEN requestConfig.timeout
               ELSE client.client.timeout,
   headers |-> IF Has(requestConfig, "headers")
               THEN Spread(client.client.headers, requestConfig.headers)
               ELSE client.client.headers]

\* The timestamp written into the body as well
requestInterceptor_StampsBody(request) ==
  [request EXCEPT !.data = @ @@ [timestamp |-> now]] @@ [params |-> [_t |-> now]]

\* The request interceptor: config.params = {...config.params, _t: Date.now()}

\* A request interceptor whose logging marks the body it logs
requestInterceptor_MarksLoggedBody(request) ==
  (IF httpClient.developerOptions.enableRequestLogging
   THEN [request EXCEPT !.data = @ @@ [logged |-> TRUE]]
   ELSE request) @@ [params |-> [_t |-> now]]

requestInterceptor(request) == request @@ [params |-> [_t |-> now]]

\* WaMessageApi.request('POST', endpoint, data, options)
SdkRequest(posted) ==
  requestInterceptor(
    HttpClientPost(httpClient, posted.endpoint, posted.data, posted.options))

(***************************************************************************)
(* Inputs.                                                                 *)
(***************************************************************************)
\* "14155550100" and "14155552671": 11 digits, accepted by the pattern
SenderNumber == <<"1", "4", "1", "5", "5", "5", "5", "0", "1", "0", "0">>
RecipientNumber == <<"1", "4", "1", "5", "5", "5", "5", "2", "6", "7", "1">>
\* "1234567890": 10 digits, rejected by the pattern
ShortNumber == <<"1", "2", "3", "4", "5", "6", "7", "8", "9", "0">>

FromNumbers == {SenderNumber, ShortNumber}
ToNumbers == {RecipientNumber, ShortNumber}

LangEnUs == <<"e", "n", "_", "U", "S">>
LangEnDashUs == <<"e", "n", "-", "U", "S">>
LangCodes == {LangEnUs, LangEnDashUs}
LangEsEs == <<"e", "s", "_", "E", "S">>
LangEnglish == <<"e", "n", "g", "l", "i", "s", "h">>
LangUpperLower == <<"E", "N", "_", "u", "s">>
MoreLangCodes == {LangEsEs, LangEnglish, LangUpperLower}

\* All sequences over `alphabet` of length at most n.
SeqsUpTo(alphabet, n) == UNION {[1..k -> alphabet] : k \in 0..n}

\* The objects with any subset of the optional string properties link and id,
\* each empty or not.
Locators ==
  {EmptyObject}
    \cup {[link |-> l] : l \in {"", "https://example.com/media"}}
    \cup {[id |-> i] : i \in {"", "media-123"}}
    \cup {[link |-> l, id |-> i] :
            l \in {"", "https://example.com/media"}, i \in {"", "media-123"}}

MediaTypes == {"image", "document", "video", "audio"}

\* The sibling properties of each media type
Siblings(type) ==
  IF type = "image" THEN {EmptyObject, [caption |-> "A caption"]}
  ELSE IF type = "document" THEN {[filename |-> "report.pdf"]}
  ELSE IF type = "video" THEN {[caption |-> "A caption"]}
  ELSE {EmptyObject}

InteractiveButtons ==
  {[id |-> "yes", title |-> "Yes"], [id |-> "no", title |-> "No"],
   [id |-> "maybe", title |-> "Maybe"], [id |-> "yes", title |-> "No"]}

InteractiveButtonLists == SeqsUpTo(InteractiveButtons, MaxInteractiveButtons)

\* The messages handed to sendMessage directly
TextMessages ==
  {[type |-> "text", from |-> f, to |-> t, text |-> x] :
     f \in FromNumbers, t \in ToNumbers,
     x \in {[body |-> "Hello"]}
             \cup {[body |-> "Hello", preview_url |-> b] : b \in BOOLEAN}}

MediaMessages ==
  UNION {{[type |-> type, from |-> f, to |-> t] @@ (type :> (l @@ s)) :
            f \in FromNumbers, t \in ToNumbers, l \in Locators,
            s \in Siblings(type)} : type \in MediaTypes}

InteractiveMessages ==
  {[type |-> "interactive", from |-> f, to |-> t,
    interactive |-> [type |-> "button", body |-> [text |-> "Pick one"],
                     action |-> [buttons |-> Map(b, ReplyButton)]]] :
     f \in FromNumbers, t \in ToNumbers, b \in InteractiveButtonLists}

\* Messages tagged 'template' (MessageType allows the tag) handed to
\* sendMessage, with a legal component list, an illegal one, or none
TemplateTaggedMessages ==
  {[type |-> "template", from |-> f, to |-> t,
    template |-> [name |-> "order_confirmation", lang_code |-> LangEnUs]
                   @@ c] :
     f \in FromNumbers, t \in ToNumbers,
     c \in {EmptyObject,
            [components |-> <<[type |-> "body",
                               parameters |-> <<[type |-> "text",
                                                 text |-> "John Doe"]>>]>>],
            [components |-> <<[type |-> "body", parameters |-> <<>>]>>],
            [components |->
               <<[type |-> "button", sub_type |-> "quick_reply", index |-> 0,
                  parameters |-> <<[type |-> "text", text |-> "Track order"]>>],
                 [type |-> "button", sub_type |-> "url", index |-> 0,
                  parameters |-> <<[type |-> "text",
                                    text |-> "Contact support"]>>]>>]}}

WhatsAppMessages ==
  TextMessages \cup MediaMessages \cup InteractiveMessages
    \cup TemplateTaggedMessages

\* The payloads of the convenience senders
\* n copies of the character c
Run(c, n) == [i \in 1..n |-> c]

\* Recipient strings around the edges of the phone pattern: a first
\* character that is a non-zero digit, a zero or a plus sign; zero to
\* MaxPhoneLength - 11 further prefix digits; a next character that is a
\* non-zero digit, a zero or a letter; nine closing digits, or eight and a
\* letter; and the empty string, a 10-digit number, a number whose prefix
\* holds a zero
PhoneSamples ==
  {<<a>> \o Run("5", n) \o <<b>> \o tail :
     a \in {"1", "0", "+"}, n \in 0..(MaxPhoneLength - 11),
     b \in {"7", "0", "x"},
     tail \in {Run("0", 9), Run("0", 8) \o <<"x">>}}
    \cup {<<>>,
          <<"7">> \o Run("0", 9),
          <<"1", "0", "7">> \o Run("0", 9),
          <<"1", "0", "0", "0", "7">> \o Run("0", 9)}

TextPayloads ==
  {[to |-> t, text |-> "Hello"] : t \in ToNumbers \cup PhoneSamples}
    \cup {[to |-> t, text |-> "Hello", previewUrl |-> b] :
            t \in ToNumbers, b \in BOOLEAN}

Urls == {"", "https://example.com/media"}
MediaIds == {"", "media-123"}

InteractivePayloads ==
  {[to |-> t, bodyText |-> "Pick one", buttons |-> b] @@ h @@ f :
     t \in ToNumbers, b \in InteractiveButtonLists,
     h \in {EmptyObject, [headerText |-> "Menu"]},
     f \in {EmptyObject, [footerText |-> "Thanks"]}}

InteractiveBasePayloads ==
  {[to |-> t, bodyText |-> "Pick one", buttons |-> b] :
     t \in ToNumbers, b \in InteractiveButtonLists}

\* The template components the callers assemble.  The buttons are chosen so
\* that every pair of sub-types has a pair with distinct indices and texts, a
\* pair sharing only the index and a pair sharing only the text, and so that
\* the indices may start above zero and leave a gap.  The other components
\* are a body with two parameters, a body with none and a header whose
\* parameters property is absent.
ComponentAlphabet ==
  {createQuickReplyButtonComponent(0, "Track order"),
   createQuickReplyButtonComponent(2, "Track order"),
   createQuickReplyButtonComponent(2, "Contact support"),
   createUrlButtonComponent(0, "Contact support"),
   createUrlButtonComponent(2, "Contact support"),
   createPhoneNumberButtonComponent(2, "Track order"),
   createPhoneNumberButtonComponent(2, "Contact support"),
   createCopyCodeButtonComponent(0, "Track order"),
   createCopyCodeButtonComponent(2, "Contact support"),
   createBodyComponent(<<"John Doe", "ORD-12345">>),
   createBodyComponent(<<>>),
   [type |-> "header"]}

\* n quick-reply buttons with indices 0..n-1 and pairwise distinct texts
QuickReplyRun(n) ==
  [i \in 1..n |->
     createQuickReplyButtonComponent(i - 1, "Option " \o ToString(i - 1))]

\* Button components a caller writes as TemplateComponent literals, whose
\* sub_type, index and parameters are optional properties: a bare button,
\* one without sub_type, one with a sub_type outside the four known ones,
\* one without index, one without parameters
HandWrittenButtons ==
  {[type |-> "button"],
   [type |-> "button", index |-> 0,
    parameters |-> <<TextParameter("Track order")>>],
   [type |-> "button", sub_type |-> "flow", index |-> 2,
    parameters |-> <<TextParameter("Contact support")>>],
   [type |-> "button", sub_type |-> "url",
    parameters |-> <<TextParameter("Contact support")>>],
   [type |-> "button", sub_type |-> "quick_reply", index |-> 0]}

HandWrittenButtonLists ==
  SeqsUpTo(HandWrittenButtons, 2)
    \cup {<<b, c>> : b \in HandWrittenButtons,
                     c \in {createQuickReplyButtonComponent(2, "Track order"),
                            createUrlButtonComponent(0, "Contact support")}}

TemplateComponentLists ==
  SeqsUpTo(ComponentAlphabet, MaxComponents)
    \cup {QuickReplyRun(n) \o extra :
            n \in 0..MaxQuickReplyRun, extra \in SeqsUpTo(ComponentAlphabet, 1)}
    \cup HandWrittenButtonLists

TemplatePayloads ==
  {[to |-> t, templateName |-> "order_confirmation", langCode |-> l] @@ c :
     t \in ToNumbers, l \in LangCodes,
     c \in {EmptyObject}
             \cup {[components |-> list] : list \in TemplateComponentLists}}
    \cup
  {[to |-> t, templateName |-> "order_confirmation", langCode |-> l] @@ c :
     t \in ToNumbers, l \in MoreLangCodes,
     c \in {EmptyObject,
            [components |-> <<createBodyComponent(<<"John Doe">>)>>]}}

\* The configurations handed to the constructor and to updateConfig
ConstructorConfigs ==
  {[apiKey |-> k, from |-> f] :
     k \in {"", "key-1"}, f \in FromNumbers \cup {<<>>}}

ConfigUpdates == {[from |-> f] : f \in FromNumbers}

\* The options handed to updateDeveloperOptions
DeveloperOptionUpdates == {[logs |-> <<"request">>]}

(***************************************************************************)
(* The state machine.  A send call runs synchronously up to the point      *)
(* where it throws or hands its request to the transport; the promise it   *)
(* returned settles later.                                                 *)
(***************************************************************************)
NoCall == [op |-> "none"]


\* A constructor that checks the API key only
ConstructorThrows_KeyOnly(cfg) ==
  IF ~Truthy(cfg, "apiKey") THEN <<[message |-> "API key is required"]>>
  ELSE <<>>

\* new WaMessageApi(cfg): the errors the constructor throws
ConstructorThrows(cfg) ==
  LET merged == Spread([timeout |-> DefaultTimeout], cfg) IN
  IF ~Truthy(merged, "apiKey") THEN <<[message |-> "API key is required"]>>
  ELSE IF ~(Has(merged, "from") /\ merged.from # <<>>)
  THEN <<[message |-> "From phone number is required"]>>
  ELSE <<>>

\* new WaMessageApi(cfg) returned; no call has been made
Construct(cfg) ==
  /\ ConstructorThrows(cfg) = <<>>
  /\ config = Spread([timeout |-> DefaultTimeout], cfg)
  /\ developerOptions =
       initializeDeveloperOptions(
         IF Has(cfg, "developerOptions") THEN Defined(cfg.developerOptions)
         ELSE Undefined)
  /\ httpClient = NewHttpClient(BaseUrl, config.apiKey, config.timeout,
                                developerOptions)
  /\ call = NoCall
  /\ requests = <<>>
  /\ now = 0
  /\ previous = NoCall

Init == \E cfg \in ConstructorConfigs : Construct(cfg)

\* A send call: `outcome` is what the service method did with `input`.
Invoke(op, input, outcome) ==
  /\ call = NoCall
  /\ call' = [op |-> op, input |-> input, status |-> outcome.status,
              from |-> getFromNumber]
               @@ Pick(outcome, {"error"})
  /\ requests' = Map(outcome.posts, SdkRequest)
  /\ UNCHANGED <<config, developerOptions, httpClient, now, previous>>

SendMessage(message, options) ==
  Invoke("sendMessage", [message |-> message, options |-> options],
         sendMessage(message, options))

SendTextMessage(p) == Invoke("sendTextMessage", p, sendTextMessage(p))

SendImageMessage(p) == Invoke("sendImageMessage", p, sendImageMessage(p))

SendImageMessageWithId(p) ==
  Invoke("sendImageMessageWithId", p, sendImageMessageWithId(p))

SendDocumentMessage(p) ==
  Invoke("sendDocumentMessage", p, sendDocumentMessage(p))

SendDocumentMessageWithId(p) ==
  Invoke("sendDocumentMessageWithId", p, sendDocumentMessageWithId(p))

SendVideoMessage(p) == Invoke("sendVideoMessage", p, sendVideoMessage(p))

SendVideoMessageWithId(p) ==
  Invoke("sendVideoMessageWithId", p, sendVideoMessageWithId(p))

SendAudioMessage(p) == Invoke("sendAudioMessage", p, sendAudioMessage(p))

SendAudioMessageWithId(p) ==
  Invoke("sendAudioMessageWithId", p, sendAudioMessageWithId(p))

SendInteractiveMessage(p) ==
  Invoke("sendInteractiveMessage", p, sendInteractiveMessage(p))

SendInteractiveMessageWithImageHeader(p) ==
  Invoke("sendInteractiveMessageWithImageHeader", p,
         sendInteractiveMessageWithImageHeader(p))

SendInteractiveMessageWithImageIdHeader(p) ==
  Invoke("sendInteractiveMessageWithImageIdHeader", p,
         sendInteractiveMessageWithImageIdHeader(p))

SendInteractiveMessageWithVideoHeader(p) ==
  Invoke("sendInteractiveMessageWithVideoHeader", p,
         sendInteractiveMessageWithVideoHeader(p))

SendInteractiveMessageWithVideoIdHeader(p) ==
  Invoke("sendInteractiveMessageWithVideoIdHeader", p,
         sendInteractiveMessageWithVideoIdHeader(p))

SendInteractiveMessageWithDocumentHeader(p) ==
  Invoke("sendInteractiveMessageWithDocumentHeader", p,
         sendInteractiveMessageWithDocumentHeader(p))

SendInteractiveMessageWithDocumentIdHeader(p) ==
  Invoke("sendInteractiveMessageWithDocumentIdHeader", p,
         sendInteractiveMessageWithDocumentIdHeader(p))

SendTemplateMessage(p) ==
  Invoke("sendTemplateMessage", p, sendTemplateMessage(p))

\* Only the field is written; the defaults of the axios instance keep the
\* old key
updateApiKey_FieldOnly(client, apiKey) == [client EXCEPT !.apiKey = apiKey]

\* HttpClient.updateApiKey(apiKey)
updateApiKey(client, apiKey) ==
  [client EXCEPT !.apiKey = apiKey,
                 !.client.headers.Authorization = "Bearer " \o apiKey]

\* WaMessageApi.updateConfig(newConfig)
UpdateConfig(newConfig) ==
  /\ config' = Spread(config, newConfig)
  /\ httpClient' = IF Truthy(newConfig, "apiKey")
                   THEN updateApiKey(httpClient, newConfig.apiKey)
                   ELSE httpClient
  /\ UNCHANGED <<developerOptions, call, requests, now, previous>>

\* WaMessageApi.updateDeveloperOptions(options): the flags derived from logs
\* by the constructor are not derived again, and the client is built anew.
UpdateDeveloperOptions(options) ==
  /\ developerOptions' = Spread(developerOptions, options)
  /\ httpClient' = NewHttpClient(BaseUrl, config.apiKey, config.timeout,
                                 developerOptions')
  /\ UNCHANGED <<config, call, requests, now, previous>>

\* The promise of the call settles: rejected with the error thrown, or
\* answered by the transport.
Settle ==
  /\ call # NoCall
  /\ call' = NoCall
  /\ requests' = <<>>
  /\ UNCHANGED <<config, developerOptions, httpClient, now, previous>>

\* Time passes
Tick ==
  /\ now < MaxClock
  /\ now' = now + 1
  /\ UNCHANGED <<config, developerOptions, httpClient, call, requests,
                 previous>>

\* The caller starts a call only when the previous one has settled.
Idle == call = NoCall

Next ==
  \/ Idle /\ \E m \in WhatsAppMessages : SendMessage(m, Undefined)
  \/ Idle /\ \E p \in TextPayloads : SendTextMessage(p)
  \/ Idle /\ \E t \in ToNumbers, u \in Urls :
       SendImageMessage([to |-> t, imageUrl |-> u])
  \/ Idle /\ \E t \in ToNumbers, u \in Urls :
       SendDocumentMessage([to |-> t, documentUrl |-> u,
                            filename |-> "report.pdf"])
  \/ Idle /\ \E t \in ToNumbers, u \in Urls :
       SendVideoMessage([to |-> t, videoUrl |-> u, caption |-> "A caption"])
  \/ Idle /\ \E t \in ToNumbers, u \in Urls :
       SendAudioMessage([to |-> t, audioUrl |-> u])
  \/ Idle /\ \E t \in ToNumbers, i \in MediaIds :
       SendImageMessageWithId([to |-> t, mediaId |-> i,
                               caption |-> "A caption"])
  \/ Idle /\ \E t \in ToNumbers, i \in MediaIds :
       SendDocumentMessageWithId([to |-> t, mediaId |-> i,
                                  filename |-> "report.pdf"])
  \/ Idle /\ \E t \in ToNumbers, i \in MediaIds :
       SendVideoMessageWithId([to |-> t, mediaId |-> i,
                               caption |-> "A caption"])
  \/ Idle /\ \E t \in ToNumbers, i \in MediaIds :
       SendAudioMessageWithId([to |-> t, mediaId |-> i])
  \/ Idle /\ \E p \in InteractivePayloads : SendInteractiveMessage(p)
  \/ Idle /\ \E p \in InteractiveBasePayloads :
       SendInteractiveMessageWithImageHeader(
         p @@ [imageUrl |-> "https://example.com/media"])
  \/ Idle /\ \E p \in InteractiveBasePayloads :
       SendInteractiveMessageWithImageIdHeader(p @@ [mediaId |-> "media-123"])
  \/ Idle /\ \E p \in InteractiveBasePayloads :
       SendInteractiveMessageWithVideoHeader(
         p @@ [videoUrl |-> "https://example.com/media"])
  \/ Idle /\ \E p \in InteractiveBasePayloads :
       SendInteractiveMessageWithVideoIdHeader(p @@ [mediaId |-> "media-123"])
  \/ Idle /\ \E p \in InteractiveBasePayloads :
       SendInteractiveMessageWithDocumentHeader(
         p @@ [documentUrl |-> "https://example.com/media"])
  \/ Idle /\ \E p \in InteractiveBasePayloads :
       SendInteractiveMessageWithDocumentIdHeader(
         p @@ [mediaId |-> "media-123"])
  \/ Idle /\ \E p \in TemplatePayloads : SendTemplateMessage(p)
  \/ Idle /\ \E c \in ConfigUpdates : UpdateConfig(c)
  \/ Idle /\ \E o \in DeveloperOptionUpdates : UpdateDeveloperOptions(o)
  \/ Idle /\ Tick
  \/ Settle

Spec == Init /\ [][Next]_vars

(***************************************************************************)
(* A session of one client object: the configuration is updated while a    *)
(* request is in flight, the transport may fail, and what each settled     *)
(* call had sent is remembered for comparison with the next.               *)
(***************************************************************************)
\* "442071838750": a second sender accepted by the pattern
SecondSenderNumber ==
  <<"4", "4", "2", "0", "7", "1", "8", "3", "8", "7", "5", "0">>

CustomHeaders == [XCustomHeader |-> "value"]

SessionConfigs ==
  {[apiKey |-> "key-1", from |-> SenderNumber] @@ h @@ d :
     h \in {EmptyObject, [headers |-> CustomHeaders]},
     d \in {EmptyObject,
            [developerOptions |-> [logs |-> <<"request", "error">>]]}}

SessionConfigUpdates ==
  {[from |-> SecondSenderNumber], [apiKey |-> "key-2"],
   [headers |-> CustomHeaders]}

\* Per-call RequestOptions: a retry policy, a header
SessionOptions ==
  {[retry |-> [attempts |-> 3, delay |-> 1000]],
   [headers |-> [XRequestId |-> "req-1"]]}

SessionTextPayloads ==
  {[to |-> RecipientNumber, text |-> "Hello"],
   [to |-> ShortNumber, text |-> "Hello"]}
    \cup {[to |-> RecipientNumber, text |-> "Hello", options |-> o] :
            o \in SessionOptions}

SessionTemplatePayloads ==
  {[to |-> RecipientNumber, templateName |-> "order_confirmation",
    langCode |-> LangEnUs,
    components |-> <<createBodyComponent(<<"John Doe">>)>>]}

SessionMessages ==
  {[type |-> "text", from |-> SenderNumber, to |-> RecipientNumber,
    text |-> [body |-> "Hello"]]}

SessionInit == \E cfg \in SessionConfigs : Construct(cfg)

\* The transport fails and retries on its own
TransportFails_Retries ==
  /\ call # NoCall
  /\ call.status = "posted"
  /\ call' = [call EXCEPT !.status = "failed"]
               @@ [error |-> [message |-> "Network error"]]
  /\ requests' = requests \o requests
  /\ UNCHANGED <<config, developerOptions, httpClient, now, previous>>

\* The transport fails: the response interceptor rejects the promise with
\* handleError(error); nothing is sent again.
TransportFails ==
  /\ call # NoCall
  /\ call.status = "posted"
  /\ call' = [call EXCEPT !.status = "failed"]
               @@ [error |-> [message |-> "Network error"]]
  /\ UNCHANGED <<config, developerOptions, httpClient, requests, now,
                 previous>>

\* The promise settles, and what the call had sent is remembered
SettleObserved ==
  /\ call # NoCall
  /\ previous' = IF requests # <<>>
                 THEN [op |-> call.op, input |-> call.input,
                       from |-> call.from, data |-> requests[1].data,
                       at |-> requests[1].params._t]
                 ELSE previous
  /\ call' = NoCall
  /\ requests' = <<>>
  /\ UNCHANGED <<config, developerOptions, httpClient, now>>

SessionNext ==
  \/ Idle /\ \E p \in SessionTextPayloads : SendTextMessage(p)
  \/ Idle /\ \E p \in SessionTemplatePayloads : SendTemplateMessage(p)
  \/ Idle /\ \E m \in SessionMessages, o \in SessionOptions :
       SendMessage(m, Defined(o))
  \/ \E c \in SessionConfigUpdates : UpdateConfig(c)
  \/ \E o \in DeveloperOptionUpdates : UpdateDeveloperOptions(o)
  \/ Tick
  \/ TransportFails
  \/ SettleObserved

SessionSpec == SessionInit /\ [][SessionNext]_vars

(***************************************************************************)
(* Vocabulary of the properties.                                           *)
(***************************************************************************)
Threw == call # NoCall /\ call.status = "threw"
Posted == call # NoCall /\ call.status = "posted"
ErrorIs(message) == Threw /\ call.error.message = message

MsgTooManyQuickReply == "Maximum 10 quick reply buttons allowed"
MsgTooManyPhoneNumber == "Maximum 1 phone number button allowed"
MsgTooManyUrl == "Maximum 1 URL button allowed"
MsgTooManyCopyCode == "Maximum 1 copy code button allowed"
MsgQuickReplyCombined ==
  "Quick reply buttons cannot be combined with other button types"
MsgCopyCodeCombined ==
  "Copy code buttons cannot be combined with phone number or URL buttons"
MsgDuplicateIndex == "Button indices must be unique"
MsgDuplicateText == "Button texts must be unique"
MsgEmptyParameters == "component must have parameters"

\* A sendTemplateMessage call whose sender, recipient and language code are
\* valid and which carries a component list: it reaches component validation.
TemplateValidated ==
  /\ call.op = "sendTemplateMessage"
  /\ validatePhoneNumber(config.from)
  /\ validatePhoneNumber(call.input.to)
  /\ validateLanguageCode(call.input.langCode)
  /\ Has(call.input, "components")

\* The rules of the data model, stated on a component list.
ButtonPositions(comps) == {i \in 1..Len(comps) : comps[i].type = "button"}
OtherPositions(comps) == {i \in 1..Len(comps) : comps[i].type # "button"}
SubTypeIs(comp, subType) == Has(comp, "sub_type") /\ comp.sub_type = subType
SubTypeCount(comps, subType) ==
  Cardinality({i \in ButtonPositions(comps) : SubTypeIs(comps[i], subType)})
SubTypes == {"quick_reply", "phone_number", "url", "copy_code"}
LimitOf(subType) == IF subType = "quick_reply" THEN 10 ELSE 1
TooManyMessage(subType) ==
  CASE subType = "quick_reply" -> MsgTooManyQuickReply
    [] subType = "phone_number" -> MsgTooManyPhoneNumber
    [] subType = "url" -> MsgTooManyUrl
    [] subType = "copy_code" -> MsgTooManyCopyCode
TooManyButtons(comps) ==
  \E subType \in SubTypes : SubTypeCount(comps, subType) > LimitOf(subType)
QuickReplyMixed(comps) ==
  /\ SubTypeCount(comps, "quick_reply") > 0
  /\ \E subType \in SubTypes \ {"quick_reply"} :
       SubTypeCount(comps, subType) > 0
CopyCodeMixed(comps) ==
  /\ SubTypeCount(comps, "copy_code") > 0
  /\ \E subType \in {"phone_number", "url"} : SubTypeCount(comps, subType) > 0
IncompatibleButtonTypes(comps) == QuickReplyMixed(comps) \/ CopyCodeMixed(comps)
DuplicateButtonIndex(comps) ==
  \E i, j \in ButtonPositions(comps) :
    i # j /\ IndexOf(comps[i]) = IndexOf(comps[j])
DuplicateButtonText(comps) ==
  \E i, j \in ButtonPositions(comps) :
    i # j /\ FirstTextOf(comps[i]) = FirstTextOf(comps[j])
HasNoParameters(comp) ==
  ~Has(comp, "parameters") \/ comp.parameters = <<>>
EmptyComponentParameters(comps) ==
  \E i \in OtherPositions(comps) : HasNoParameters(comps[i])
ButtonSetViolation(comps) ==
  \/ TooManyButtons(comps)
  \/ IncompatibleButtonTypes(comps)
  \/ DuplicateButtonIndex(comps)
  \/ DuplicateButtonText(comps)

\* The request body the pending call handed to the transport
SentData == requests[1].data


(***************************************************************************)
(* The life of one SDK object: `new WaMessageApi(cfg)` with any            *)
(* configuration a caller may write, then updates and sends.               *)
(***************************************************************************)
\* No object yet: the constructor has not run, or it threw
NotConstructed == [constructed |-> FALSE]
Constructed == httpClient # NotConstructed

CallerTimeouts == {5000}

\* Configurations with apiKey, from and timeout absent, empty or given
LifecycleConfigs ==
  {k @@ f @@ t :
     k \in {EmptyObject, [apiKey |-> ""], [apiKey |-> "key-1"]},
     f \in {EmptyObject, [from |-> <<>>], [from |-> SenderNumber]},
     t \in {EmptyObject} \cup {[timeout |-> ms] : ms \in CallerTimeouts}}

\* What a caller may hand to updateConfig (a Partial<SendZenConfig>)
LifecycleConfigUpdates ==
  {[apiKey |-> "key-2"], [apiKey |-> ""], [from |-> <<>>],
   [from |-> SecondSenderNumber]}
    \cup {[timeout |-> ms] : ms \in CallerTimeouts}

LifecycleTextPayloads ==
  {[to |-> t, text |-> "Hello"] : t \in {RecipientNumber, ShortNumber}}

LifecycleInit ==
  /\ config = NotConstructed
  /\ developerOptions = NotConstructed
  /\ httpClient = NotConstructed
  /\ call = NoCall
  /\ requests = <<>>
  /\ now = 0
  /\ previous = NoCall

\* new WaMessageApi(cfg): it throws and leaves no object, or it returns the
\* object with its configuration, developer options and transport client
New(cfg) ==
  /\ ~Constructed
  /\ requests' = <<>>
  /\ UNCHANGED <<now, previous>>
  /\ IF ConstructorThrows(cfg) # <<>>
     THEN /\ call' = [op |-> "constructor", input |-> cfg,
                      status |-> "threw", error |-> ConstructorThrows(cfg)[1]]
          /\ UNCHANGED <<config, developerOptions, httpClient>>
     ELSE /\ call' = [op |-> "constructor", input |-> cfg,
                      status |-> "returned"]
          /\ config' = Spread([timeout |-> DefaultTimeout], cfg)
          /\ developerOptions' =
               initializeDeveloperOptions(
                 IF Has(cfg, "developerOptions")
                 THEN Defined(cfg.developerOptions) ELSE Undefined)
          /\ httpClient' = NewHttpClient(BaseUrl, config'.apiKey,
                                         config'.timeout, developerOptions')

\* The options a caller may hand to updateDeveloperOptions: a logs list, a
\* logging switch, a switch and a format
LifecycleDeveloperOptionUpdates ==
  {[logs |-> <<"request">>],
   [enableRequestLogging |-> TRUE],
   [enableErrorLogging |-> TRUE, logFormat |-> "json"]}

LifecycleTemplatePayloads ==
  {[to |-> RecipientNumber, templateName |-> "order_confirmation",
    langCode |-> LangEnUs] @@ c :
     c \in {EmptyObject,
            [components |-> <<>>],
            [components |-> <<createBodyComponent(<<"John Doe">>)>>],
            [components |-> <<createBodyComponent(<<>>)>>]}}

\* The promise settles; what the call was, under which developer options
\* the transport ran, and how it ended are remembered.  (No update runs
\* while a call is pending, so the options are those of the invocation.)
SettleRemembered ==
  /\ call # NoCall
  /\ previous' = IF call.op = "constructor" THEN previous
                 ELSE [op |-> call.op, input |-> call.input,
                       from |-> call.from, status |-> call.status,
                       logging |-> httpClient.developerOptions]
                        @@ Pick(call, {"error"})
                        @@ (IF requests # <<>>
                            THEN [data |-> requests[1].data]
                            ELSE EmptyObject)
  /\ call' = NoCall
  /\ requests' = <<>>
  /\ UNCHANGED <<config, developerOptions, httpClient, now>>

LifecycleNext ==
  \/ Idle /\ \E cfg \in LifecycleConfigs : New(cfg)
  \/ Idle /\ Constructed /\ \E p \in LifecycleTextPayloads : SendTextMessage(p)
  \/ Idle /\ Constructed
       /\ \E p \in LifecycleTemplatePayloads : SendTemplateMessage(p)
  \/ Idle /\ Constructed /\ \E c \in LifecycleConfigUpdates : UpdateConfig(c)
  \/ Idle /\ Constructed
       /\ \E o \in LifecycleDeveloperOptionUpdates : UpdateDeveloperOptions(o)
  \/ SettleRemembered

LifecycleSpec == LifecycleInit /\ [][LifecycleNext]_vars

(***************************************************************************)
(* C1.  For every media message type, sendMessage fails with the          *)
(* missing-locator error when the media payload sets both link and id and *)
(* when it sets neither; with exactly one set the call succeeds and the    *)
(* emitted media object carries exactly the field provided.  (A property   *)
(* is set when it is a non-empty string; sender and recipient are valid.)  *)
(***************************************************************************)
LocatorsSet(media) ==
  (IF Truthy(media, "link") THEN 1 ELSE 0)
    + (IF Truthy(media, "id") THEN 1 ELSE 0)

MissingLocatorMessage(type) ==
  CASE type = "image" -> "Image message must have either link or id"
    [] type = "document" -> "Document message must have either link or id"
    [] type = "video" -> "Video message must have either link or id"
    [] type = "audio" -> "Audio message must have either link or id"

DirectMediaCall ==
  /\ call.op = "sendMessage"
  /\ call.input.message.type \in MediaTypes
  /\ validatePhoneNumber(call.input.message.from)
  /\ validatePhoneNumber(call.input.message.to)

C1_LocatorXor ==
  DirectMediaCall =>
    LET type == call.input.message.type
        media == call.input.message[type]
    IN
    /\ LocatorsSet(media) # 1 => ErrorIs(MissingLocatorMessage(type))
    /\ LocatorsSet(media) = 1 =>
         /\ Posted
         /\ Truthy(media, "link") =>
              /\ Has(SentData[type], "link") /\ ~Has(SentData[type], "id")
              /\ SentData[type].link = media.link
         /\ Truthy(media, "id") =>
              /\ Has(SentData[type], "id") /\ ~Has(SentData[type], "link")
              /\ SentData[type].id = media.id

(***************************************************************************)
(* C2.  Whenever a send operation rejects its input with a validation     *)
(* error, no transport request has been issued for that call and the      *)
(* configuration, the developer options and the transport client are the  *)
(* same as before the call.                                                *)
(***************************************************************************)
C2_RejectedCallHasNoEffect ==
  [][(call = NoCall /\ call' # NoCall /\ call'.status = "threw")
       => /\ requests' = <<>>
          /\ config' = config
          /\ developerOptions' = developerOptions
          /\ httpClient' = httpClient]_vars

\* A template call rejected for its components, with nothing sent
C2_Witness ==
  /\ call.op = "sendTemplateMessage"
  /\ ErrorIs(MsgDuplicateIndex)
  /\ requests = <<>>

(***************************************************************************)
(* C3.  A body component together with a quick_reply button at index 0    *)
(* and a url button at index 0 makes sendTemplateMessage fail.            *)
(***************************************************************************)
ScenarioB(comps) ==
  /\ Len(comps) = 3
  /\ \E i, j, k \in 1..3 :
       /\ comps[i] = createBodyComponent(<<"John Doe", "ORD-12345">>)
       /\ comps[j].type = "button" /\ SubTypeIs(comps[j], "quick_reply")
       /\ IndexOf(comps[j]) = Defined(0)
       /\ comps[k].type = "button" /\ SubTypeIs(comps[k], "url")
       /\ IndexOf(comps[k]) = Defined(0)

\* C3 as claimed: the error is the duplicate-button-index error.
C3_ScenarioFailsWithDuplicateIndex ==
  (TemplateValidated /\ ScenarioB(call.input.components))
    => ErrorIs(MsgDuplicateIndex)

\* C3 as amended: the error is the incompatible-button-types error, because
\* the combination of sub-types is checked before the indices.
C3_ScenarioFailsWithIncompatibleTypes ==
  (TemplateValidated /\ ScenarioB(call.input.components))
    => ErrorIs(MsgQuickReplyCombined)

C3_Witness == TemplateValidated /\ ScenarioB(call.input.components) /\ Threw

(***************************************************************************)
(* C4.  Which error surfaces when a component list holds both a           *)
(* non-button component without parameters and a button-set violation.    *)
(***************************************************************************)
\* The sub-type the count checks report: they run in this order
FirstOverLimit(comps) ==
  IF SubTypeCount(comps, "quick_reply") > LimitOf("quick_reply")
  THEN "quick_reply"
  ELSE IF SubTypeCount(comps, "phone_number") > LimitOf("phone_number")
  THEN "phone_number"
  ELSE IF SubTypeCount(comps, "url") > LimitOf("url") THEN "url"
  ELSE "copy_code"

\* The first violation in the sequence: button count limits, quick_reply
\* exclusivity, copy_code exclusivity, duplicate index, duplicate text, and
\* last the empty parameters of a non-button component.
FirstViolationButtonsFirst(comps) ==
  IF TooManyButtons(comps) THEN TooManyMessage(FirstOverLimit(comps))
  ELSE IF QuickReplyMixed(comps) THEN MsgQuickReplyCombined
  ELSE IF CopyCodeMixed(comps) THEN MsgCopyCodeCombined
  ELSE IF DuplicateButtonIndex(comps) THEN MsgDuplicateIndex
  ELSE IF DuplicateButtonText(comps) THEN MsgDuplicateText
  ELSE IF EmptyComponentParameters(comps) THEN MsgEmptyParameters
  ELSE "none"

\* C4 as claimed: a list with both a non-button component with an empty
\* parameter list and a button-set violation raises the
\* empty-component-parameters error.
C4_EmptyParametersReportedFirst ==
  (/\ TemplateValidated
   /\ EmptyComponentParameters(call.input.components)
   /\ ButtonSetViolation(call.input.components))
    => ErrorIs(MsgEmptyParameters)

\* C4 as amended: validation reports the first violation in the sequence
\* button count limits, quick_reply exclusivity, copy_code exclusivity,
\* duplicate index, duplicate text, empty non-button parameters; a list with
\* both an empty non-button component and a button-set violation raises the
\* error of the button-set violation.
C4_ButtonViolationReportedFirst ==
  TemplateValidated =>
    LET first == FirstViolationButtonsFirst(call.input.components) IN
    /\ first = "none" => Posted
    /\ first # "none" => ErrorIs(first)
    /\ (/\ EmptyComponentParameters(call.input.components)
        /\ ButtonSetViolation(call.input.components))
         => ~ErrorIs(MsgEmptyParameters)

C4_Witness ==
  /\ TemplateValidated
  /\ EmptyComponentParameters(call.input.components)
  /\ DuplicateButtonText(call.input.components)
  /\ ErrorIs(MsgDuplicateText)

(***************************************************************************)
(* C5.  sendTemplateMessage rejects with the too-many-buttons error every *)
(* component list holding more than 10 quick_reply buttons or more than 1 *)
(* phone_number, url or copy_code button, and the error names a sub-type  *)
(* that is over its limit and that limit; a list of exactly 10 quick_reply *)
(* buttons with pairwise distinct indices and texts and no other           *)
(* violation is accepted.                                                  *)
(***************************************************************************)
C5_TooManyButtons ==
  TemplateValidated =>
    LET comps == call.input.components IN
    /\ TooManyButtons(comps) =>
         \E subType \in SubTypes :
           /\ SubTypeCount(comps, subType) > LimitOf(subType)
           /\ ErrorIs(TooManyMessage(subType))
    /\ (/\ SubTypeCount(comps, "quick_reply") = 10
        /\ ~ButtonSetViolation(comps)
        /\ ~EmptyComponentParameters(comps))
         => Posted

\* Ten quick replies were sent
C5_Witness ==
  /\ TemplateValidated
  /\ SubTypeCount(call.input.components, "quick_reply") = 10
  /\ Posted
  /\ Len(SentData.template.components) = 10

\* Eleven quick replies were refused
C5_WitnessEleven ==
  /\ TemplateValidated
  /\ SubTypeCount(call.input.components, "quick_reply") = 11
  /\ ErrorIs(MsgTooManyQuickReply)

(***************************************************************************)
(* C6.  Within the count limits, a template button list is rejected with  *)
(* an incompatible-button-types error exactly when it holds a quick_reply *)
(* button together with a phone_number, url or copy_code button, or a     *)
(* copy_code button together with a phone_number or url button; a list    *)
(* with one url and one phone_number button, distinct in index and text,  *)
(* and no quick_reply or copy_code button is accepted.                     *)
(***************************************************************************)
UrlAndPhoneOnly(comps) ==
  /\ SubTypeCount(comps, "url") = 1
  /\ SubTypeCount(comps, "phone_number") = 1
  /\ SubTypeCount(comps, "quick_reply") = 0
  /\ SubTypeCount(comps, "copy_code") = 0
  /\ ~DuplicateButtonIndex(comps)
  /\ ~DuplicateButtonText(comps)

C6_IncompatibleButtonTypes ==
  (TemplateValidated /\ ~TooManyButtons(call.input.components)) =>
    LET comps == call.input.components IN
    /\ (ErrorIs(MsgQuickReplyCombined) \/ ErrorIs(MsgCopyCodeCombined))
         <=> IncompatibleButtonTypes(comps)
    /\ (UrlAndPhoneOnly(comps) /\ ~EmptyComponentParameters(comps)) => Posted

\* A quick reply next to a copy code was refused
C6_Witness ==
  /\ TemplateValidated
  /\ SubTypeCount(call.input.components, "quick_reply") = 1
  /\ SubTypeCount(call.input.components, "copy_code") = 1
  /\ SubTypeCount(call.input.components, "url") = 0
  /\ SubTypeCount(call.input.components, "phone_number") = 0
  /\ ErrorIs(MsgQuickReplyCombined)

\* A url button next to a phone number button was sent
C6_WitnessAccepted ==
  TemplateValidated /\ UrlAndPhoneOnly(call.input.components) /\ Posted

(***************************************************************************)
(* C7.  The button indices of a template request.                         *)
(***************************************************************************)
SentTemplateComponents ==
  IF Has(SentData.template, "components") THEN SentData.template.components
  ELSE <<>>

SentTemplate ==
  call.op = "sendTemplateMessage" /\ Posted /\ Len(requests) = 1

\* C7 as claimed: the button indices of every component list handed to the
\* transport are pairwise distinct, a list with no violation is accepted
\* whatever its indices are, and two button components with the same index
\* are rejected with the duplicate-index error.
C7_DuplicateIndexAlwaysReported ==
  /\ SentTemplate => ~DuplicateButtonIndex(SentTemplateComponents)
  /\ TemplateValidated =>
       LET comps == call.input.components IN
       /\ (~ButtonSetViolation(comps) /\ ~EmptyComponentParameters(comps))
            => Posted
       /\ DuplicateButtonIndex(comps) => ErrorIs(MsgDuplicateIndex)

\* C7 as amended: the button indices of every component list handed to the
\* transport are pairwise distinct, a list with no violation is accepted
\* whatever its indices are, and two button components with the same index
\* are rejected: with the duplicate-index error when the list is within the
\* count limits and combines no incompatible sub-types, with the error of
\* the count or combination check otherwise.
C7_UniqueButtonIndices ==
  /\ SentTemplate => ~DuplicateButtonIndex(SentTemplateComponents)
  /\ TemplateValidated =>
       LET comps == call.input.components IN
       /\ (~ButtonSetViolation(comps) /\ ~EmptyComponentParameters(comps))
            => Posted
       /\ DuplicateButtonIndex(comps) =>
            /\ Threw
            /\ (~TooManyButtons(comps) /\ ~IncompatibleButtonTypes(comps))
                 <=> ErrorIs(MsgDuplicateIndex)

\* Two buttons whose indices are 0 and 2 were sent
C7_Witness ==
  /\ SentTemplate
  /\ {IndexOf(SentTemplateComponents[i]) :
        i \in ButtonPositions(SentTemplateComponents)}
       = {Defined(0), Defined(2)}

\* Two compatible buttons with the same index were refused
C7_WitnessRejected ==
  /\ TemplateValidated
  /\ SubTypeCount(call.input.components, "url") = 1
  /\ SubTypeCount(call.input.components, "phone_number") = 1
  /\ ErrorIs(MsgDuplicateIndex)

(***************************************************************************)
(* C8.  The first-parameter texts of the button components of every       *)
(* component list handed to the transport are pairwise distinct across    *)
(* all sub-types; a list with two button components whose first parameter  *)
(* text is identical, and no earlier violation, is rejected with the      *)
(* duplicate-button-text error.                                            *)
(***************************************************************************)
C8_UniqueButtonTexts ==
  /\ SentTemplate => ~DuplicateButtonText(SentTemplateComponents)
  /\ TemplateValidated =>
       LET comps == call.input.components IN
       (/\ DuplicateButtonText(comps)
        /\ ~TooManyButtons(comps)
        /\ ~IncompatibleButtonTypes(comps)
        /\ ~DuplicateButtonIndex(comps))
         => ErrorIs(MsgDuplicateText)

\* A url button and a phone number button with the same text were refused
C8_Witness ==
  /\ TemplateValidated
  /\ SubTypeCount(call.input.components, "url") = 1
  /\ SubTypeCount(call.input.components, "phone_number") = 1
  /\ ErrorIs(MsgDuplicateText)

(***************************************************************************)
(* C9.  The parameters of the header, body and footer components.         *)
(***************************************************************************)
\* The type of the first non-button component without parameters
FirstEmptyType(comps) ==
  LET first == CHOOSE i \in OtherPositions(comps) :
                 /\ HasNoParameters(comps[i])
                 /\ \A j \in OtherPositions(comps) :
                      HasNoParameters(comps[j]) => i <= j
  IN comps[first].type

EmptyParametersErrorFor(comps) ==
  /\ ErrorIs(MsgEmptyParameters)
  /\ call.error.componentType = FirstEmptyType(comps)

\* C9 as claimed: every header, body and footer component handed to the
\* transport carries at least one parameter, and a non-button component
\* whose parameter list is empty or absent makes the call fail with the
\* empty-component-parameters error naming the component type.
C9_EmptyParametersAlwaysReported ==
  /\ SentTemplate => ~EmptyComponentParameters(SentTemplateComponents)
  /\ (TemplateValidated /\ EmptyComponentParameters(call.input.components))
       => EmptyParametersErrorFor(call.input.components)

\* C9 as amended: every header, body and footer component handed to the
\* transport carries at least one parameter, and a non-button component
\* whose parameter list is empty or absent makes the call fail: with the
\* empty-component-parameters error naming the component type when the
\* button components violate no rule, with the error of the button rule
\* otherwise.
C9_NonButtonComponentsHaveParameters ==
  /\ SentTemplate => ~EmptyComponentParameters(SentTemplateComponents)
  /\ (TemplateValidated /\ EmptyComponentParameters(call.input.components))
       =>
       LET comps == call.input.components IN
       /\ Threw
       /\ ~ButtonSetViolation(comps) <=> EmptyParametersErrorFor(comps)

\* A header whose parameters property is absent was refused by name
C9_Witness ==
  /\ TemplateValidated
  /\ \E i \in 1..Len(call.input.components) :
       /\ call.input.components[i].type = "header"
       /\ ~Has(call.input.components[i], "parameters")
  /\ ErrorIs(MsgEmptyParameters)
  /\ call.error.componentType = "header"

(***************************************************************************)
(* C10.  Every interactive message handed to the transport has between 1  *)
(* and 3 buttons with pairwise distinct ids and pairwise distinct titles, *)
(* whether it came through a sendInteractiveMessage* method or through    *)
(* sendMessage called directly.                                            *)
(***************************************************************************)
SentButtons == SentData.interactive.action.buttons

C10_InteractiveButtonsLegal ==
  (Posted /\ Len(requests) = 1 /\ SentData.type = "interactive") =>
    /\ Len(SentButtons) \in 1..3
    /\ \A i, j \in 1..Len(SentButtons) :
         i # j => /\ SentButtons[i].reply.id # SentButtons[j].reply.id
                  /\ SentButtons[i].reply.title # SentButtons[j].reply.title

(***************************************************************************)
(* C11.  A template message is never handed to the transport without the  *)
(* template component validator having run on it: the components of a     *)
(* message tagged `template` that goes through sendMessage are validated  *)
(* like those given to sendTemplateMessage before any request is issued.  *)
(***************************************************************************)
\* The components the caller gave with the template, if any
CallerTemplate ==
  IF call.op = "sendTemplateMessage" THEN Pick(call.input, {"components"})
  ELSE Pick(call.input.message.template, {"components"})

C11_TemplateValidatedBeforeEmission ==
  (/\ Posted
   /\ Len(requests) = 1
   /\ SentData.type = "template"
   /\ Has(CallerTemplate, "components"))
    => validateTemplateComponents(CallerTemplate.components) = <<>>

(***************************************************************************)
(* C12.  A send call whose sender and recipient are written in the        *)
(* format the README documents (a string of 1 to 15 digits without `+`,   *)
(* such as the 10-digit 1234567890 of every example) passes phone-number  *)
(* validation and issues a request.                                        *)
(***************************************************************************)
DocumentedNumber(phone) ==
  /\ Len(phone) \in 1..15
  /\ phone[1] \in NonZeroDigit
  /\ \A i \in 1..Len(phone) : phone[i] \in Digit

C12_DocumentedNumbersAccepted ==
  (/\ call.op = "sendTextMessage"
   /\ DocumentedNumber(config.from)
   /\ DocumentedNumber(call.input.to))
    => Posted

(***************************************************************************)
(* C13.  validateLanguageCode accepts a string exactly when it is two     *)
(* lowercase ASCII letters, an underscore and two uppercase ASCII letters *)
(* (en_US and es_ES pass; english, en-US and EN_us fail), and             *)
(* sendTemplateMessage, given a valid sender and recipient, fails with    *)
(* the invalid-language-code error naming the string for every rejected   *)
(* code and for no accepted one.                                           *)
(***************************************************************************)
MsgInvalidLanguage == "Invalid language code format"

TwoLowerUnderscoreTwoUpper(code) ==
  /\ Len(code) = 5
  /\ code[1] \in LowerLetter /\ code[2] \in LowerLetter
  /\ code[3] = "_"
  /\ code[4] \in UpperLetter /\ code[5] \in UpperLetter

LanguageCodeRejected ==
  ErrorIs(MsgInvalidLanguage) /\ call.error.langCode = call.input.langCode

C13_LanguageCodePattern ==
  (/\ call.op = "sendTemplateMessage"
   /\ validatePhoneNumber(config.from)
   /\ validatePhoneNumber(call.input.to))
    =>
    LET code == call.input.langCode IN
    /\ LanguageCodeRejected <=> ~TwoLowerUnderscoreTwoUpper(code)
    /\ ErrorIs(MsgInvalidLanguage) => LanguageCodeRejected
    /\ code \in {LangEnUs, LangEsEs} =>
         /\ ~ErrorIs(MsgInvalidLanguage)
         /\ ~Has(call.input, "components") => Posted
    /\ code \in {LangEnglish, LangEnDashUs, LangUpperLower}
         => LanguageCodeRejected

\* EN_us was refused by name
C13_Witness ==
  /\ call.op = "sendTemplateMessage"
  /\ call.input.langCode = LangUpperLower
  /\ LanguageCodeRejected

(***************************************************************************)
(* C14.  For every non-template message that passes validation, the body  *)
(* sendMessage hands to the transport has the sender under lowercase      *)
(* `from`, the recipient under capitalized `To` (and no lowercase `to`),  *)
(* the type tag under `type` and the payload under a field named after    *)
(* the type; sendTextMessage({to: "14155552671", text: "Hello",           *)
(* previewUrl: true}) with sender "14155550100" produces {from:           *)
(* "14155550100", To: "14155552671", type: "text", text: {body: "Hello",  *)
(* preview_url: true}}.                                                    *)
(***************************************************************************)
\* The message type each convenience method sends
TypeOfOp(op) ==
  CASE op = "sendTextMessage" -> "text"
    [] op \in {"sendImageMessage", "sendImageMessageWithId"} -> "image"
    [] op \in {"sendDocumentMessage", "sendDocumentMessageWithId"} -> "document"
    [] op \in {"sendVideoMessage", "sendVideoMessageWithId"} -> "video"
    [] op \in {"sendAudioMessage", "sendAudioMessageWithId"} -> "audio"
    [] op = "sendTemplateMessage" -> "template"
    [] OTHER -> "interactive"

CallType ==
  IF call.op = "sendMessage" THEN call.input.message.type
  ELSE TypeOfOp(call.op)

CallSender ==
  IF call.op = "sendMessage" THEN call.input.message.from ELSE config.from

CallRecipient ==
  IF call.op = "sendMessage" THEN call.input.message.to ELSE call.input.to

SentTemplateContent ==
  /\ SentData.from = config.from
  /\ SentData.to = call.input.to
  /\ ~Has(SentData, "To")
  /\ SentData.template.name = call.input.templateName
  /\ SentData.template.lang_code = call.input.langCode
  /\ Has(call.input, "components") =>
       /\ Has(SentData.template, "components")
       /\ SentData.template.components = call.input.components

\* C15 as claimed: the body has the shape {from, to, template: {name,
\* lang_code, components}}, the sender is the configured from-number, the
\* recipient sits under lowercase `to` and components is the caller's list,
\* unchanged and in the caller's order.
C15_TemplateBodyWithoutTypeTag ==
  SentTemplate =>
    /\ DOMAIN SentData = {"from", "to", "template"}
    /\ DOMAIN SentData.template = {"name", "lang_code", "components"}
    /\ SentTemplateContent

\* C15 as amended: the body has the shape {type: 'template', from, to,
\* template: {name, lang_code, components}}, with the type tag and with
\* components present only when the caller gave a component list; the sender
\* is the configured from-number, the recipient sits under lowercase `to`
\* and components is the caller's list, unchanged and in the caller's order.
C15_TemplateBodyShape ==
  SentTemplate =>
    /\ DOMAIN SentData = {"type", "from", "to", "template"}
    /\ SentData.type = "template"
    /\ DOMAIN SentData.template =
         {"name", "lang_code"}
           \cup (IF Has(call.input, "components") THEN {"components"} ELSE {})
    /\ SentTemplateContent

\* A body, a url button and a phone number button were sent in that order
C15_Witness ==
  /\ SentTemplate
  /\ Has(call.input, "components")
  /\ Len(call.input.components) = 3
  /\ call.input.components[1].type = "body"
  /\ SubTypeIs(call.input.components[2], "url")
  /\ SubTypeIs(call.input.components[3], "phone_number")
  /\ SentData.template.components = call.input.components

(***************************************************************************)
(* C16.  Configuration updates are last-write-wins between calls and      *)
(* never affect a call already started: the sender number and API key a   *)
(* send call uses are the values configured when it was invoked, the      *)
(* request of a call in flight is not changed by updateConfig or          *)
(* updateDeveloperOptions, and after an update the client authorizes with *)
(* the key written last.                                                   *)
(***************************************************************************)
Authorization(apiKey) == "Bearer " \o apiKey

C17_ConfiguredHeadersSent ==
  [][(/\ call = NoCall
      /\ call' # NoCall
      /\ call'.status = "posted"
      /\ Has(config, "headers"))
       => \A name \in DOMAIN config.headers :
            /\ name \in DOMAIN requests'[1].headers
            /\ requests'[1].headers[name] = config.headers[name]
    ]_vars

(***************************************************************************)
(* C18.  In every state reached by constructing the SDK and applying      *)
(* updateDeveloperOptions any number of times, each logging switch is     *)
(* enabled whenever the current `logs` array includes its type.           *)
(***************************************************************************)
SwitchOf(type) ==
  CASE type = "request" -> "enableRequestLogging"
    [] type = "response" -> "enableResponseLogging"
    [] type = "error" -> "enableErrorLogging"
    [] type = "debug" -> "enableDebugLogging"

C18_SwitchesFollowLogs ==
  \A type \in {"request", "response", "error", "debug"} :
    Includes(developerOptions.logs, type) => developerOptions[SwitchOf(type)]

(***************************************************************************)
(* C19.  Each send call performs at most one request/response exchange    *)
(* with the transport: a call that passes validation issues exactly one   *)
(* request, a rejected call none, and a failed request is surfaced to the *)
(* caller and never issued again, whatever `retry` value the per-call     *)
(* options hold.                                                           *)
(***************************************************************************)
C19_OneExchangePerCall ==
  [][/\ Len(requests') <= 1
     /\ (call' # NoCall /\ call'.status \in {"posted", "failed"})
          => Len(requests') = 1 /\ "retry" \notin DOMAIN requests'[1]
     /\ (call' # NoCall /\ call'.status = "threw") => requests' = <<>>
     /\ (call # NoCall /\ call' # NoCall) => requests' = requests
     /\ (call' # NoCall /\ call'.status = "failed") => Has(call', "error")
    ]_vars

\* A call made with a retry policy failed, and its one request was not
\* repeated
C19_Witness ==
  /\ call # NoCall
  /\ call.status = "failed"
  /\ Has(call.input, "options")
  /\ call.op = "sendTextMessage"
  /\ Has(call.input.options, "retry")
  /\ Len(requests) = 1

(***************************************************************************)
(* C20.  Formatting is deterministic: for every message and fixed         *)
(* configured sender, two send calls with the same message hand identical *)
(* request bodies to the transport, whenever they are made (the body      *)
(* holds no timestamp, counter or random value), and the first call       *)
(* leaves nothing behind that changes the second.                          *)
(***************************************************************************)
SameCallAsPrevious ==
  /\ call # NoCall
  /\ requests # <<>>
  /\ previous # NoCall
  /\ previous.op = call.op
  /\ previous.input = call.input
  /\ previous.from = call.from

C20_SameMessageSameBody == SameCallAsPrevious => SentData = previous.data

\* The same text message was sent at two different times
C20_Witness ==
  /\ SameCallAsPrevious
  /\ call.op = "sendTextMessage"
  /\ requests[1].params._t # previous.at
  /\ SentData = previous.data

(***************************************************************************)
(* C21.  The template component constructors perform no validation and    *)
(* keep their inputs: createBodyComponent and createFooterComponent map a *)
(* list of strings to a component of that type with one text parameter    *)
(* per string, in order (the empty list for no strings); each button      *)
(* constructor returns a button component with the given sub-type, index  *)
(* and a single text parameter.  A constructed component that is empty,   *)
(* or illegal only next to another one, is rejected by                    *)
(* sendTemplateMessage.                                                    *)
(***************************************************************************)
ConstructorTexts == {"John Doe", "ORD-12345", "Track order"}
ConstructorIndices == {0, 2}

TextParametersOf(texts) ==
  [i \in 1..Len(texts) |-> [type |-> "text", text |-> texts[i]]]

ButtonOf(subType, index, text) ==
  [type |-> "button", sub_type |-> subType, index |-> index,
   parameters |-> <<[type |-> "text", text |-> text]>>]

ConstructorsKeepInputs ==
  /\ \A texts \in SeqsUpTo(ConstructorTexts, 2) :
       /\ createBodyComponent(texts)
            = [type |-> "body", parameters |-> TextParametersOf(texts)]
       /\ createFooterComponent(texts)
            = [type |-> "footer", parameters |-> TextParametersOf(texts)]
       /\ Len(createBodyComponent(texts).parameters) = Len(texts)
  /\ createBodyComponent(<<>>).parameters = <<>>
  /\ createFooterComponent(<<>>).parameters = <<>>
  /\ \A index \in ConstructorIndices, text \in ConstructorTexts :
       /\ createQuickReplyButtonComponent(index, text)
            = ButtonOf("quick_reply", index, text)
       /\ createPhoneNumberButtonComponent(index, text)
            = ButtonOf("phone_number", index, text)
       /\ createUrlButtonComponent(index, text)
            = ButtonOf("url", index, text)
       /\ createCopyCodeButtonComponent(index, text)
            = ButtonOf("copy_code", index, text)

\* Constructed components that are legal one by one only
ConstructedIllegalTogether ==
  {<<createQuickReplyButtonComponent(0, "Track order"),
     createUrlButtonComponent(2, "Contact support")>>,
   <<createQuickReplyButtonComponent(2, "Track order"),
     createPhoneNumberButtonComponent(2, "Contact support")>>,
   <<createUrlButtonComponent(0, "Contact support"),
     createUrlButtonComponent(2, "Contact support")>>}

C21_ConstructorsDoNotValidate ==
  /\ ConstructorsKeepInputs
  /\ TemplateValidated =>
       /\ (\E i \in 1..Len(call.input.components) :
             call.input.components[i] = createBodyComponent(<<>>)) => Threw
       /\ call.input.components = <<createBodyComponent(<<>>)>> =>
            (ErrorIs(MsgEmptyParameters) /\ call.error.componentType = "body")
       /\ call.input.components \in ConstructedIllegalTogether => Threw
       /\ call.input.components
            = <<createBodyComponent(<<"John Doe", "ORD-12345">>)>> =>
            /\ Posted
            /\ SentData.template.components[1].parameters
                 = <<[type |-> "text", text |-> "John Doe"],
                     [type |-> "text", text |-> "ORD-12345"]>>

\* An empty body component was built and only the send call rejected it
C21_Witness ==
  /\ TemplateValidated
  /\ call.input.components = <<createBodyComponent(<<>>)>>
  /\ ErrorIs(MsgEmptyParameters)
  /\ call.error.componentType = "body"

(***************************************************************************)
(* C22.  Constructing the SDK fails when apiKey is missing or empty, or   *)
(* when the sender `from` is missing or empty, and no transport client is *)
(* created then; when no timeout is given the configured timeout is       *)
(* 30000 ms, and a timeout the caller supplies replaces the default.      *)
(***************************************************************************)
ConstructorCall == call # NoCall /\ call.op = "constructor"
LacksApiKey(cfg) == ~Has(cfg, "apiKey") \/ cfg.apiKey = ""
LacksFrom(cfg) == ~Has(cfg, "from") \/ cfg.from = <<>>

C22_ConstructorChecksConfiguration ==
  ConstructorCall =>
    /\ call.status = "threw" <=> LacksApiKey(call.input) \/ LacksFrom(call.input)
    /\ call.status = "threw" =>
         /\ ~Constructed
         /\ call.error.message =
              IF LacksApiKey(call.input) THEN "API key is required"
              ELSE "From phone number is required"
    /\ call.status = "returned" =>
         /\ Constructed
         /\ config.timeout = IF Has(call.input, "timeout")
                             THEN call.input.timeout ELSE 30000
         /\ httpClient.defaultTimeout = config.timeout
         /\ httpClient.client.timeout = config.timeout

\* A configuration with a key and an empty sender was refused
C22_Witness ==
  /\ ConstructorCall
  /\ call.status = "threw"
  /\ ~LacksApiKey(call.input)
  /\ Has(call.input, "from")
  /\ call.input.from = <<>>
  /\ Has(call.input, "timeout")
  /\ ~Constructed

(***************************************************************************)
(* C23.  The phone numbers of a send call.                                 *)
(***************************************************************************)
MsgInvalidFrom == "Invalid 'from' phone number format"
MsgInvalidTo == "Invalid 'to' phone number format"

\* One of the convenience senders of an interactive message
InteractiveSender ==
  call.op \notin {"sendMessage", "constructor"}
    /\ TypeOfOp(call.op) = "interactive"

DuplicateIds(buttons) ==
  \E i, j \in 1..Len(buttons) : i # j /\ buttons[i].id = buttons[j].id
DuplicateTitles(buttons) ==
  \E i, j \in 1..Len(buttons) : i # j /\ buttons[i].title = buttons[j].title
IllegalButtonSet(buttons) ==
  \/ Len(buttons) = 0
  \/ Len(buttons) > 3
  \/ DuplicateIds(buttons)
  \/ DuplicateTitles(buttons)

SenderErrorReported ==
  ErrorIs(MsgInvalidFrom) /\ call.error.phone = CallSender
RecipientErrorReported ==
  ErrorIs(MsgInvalidTo) /\ call.error.phone = CallRecipient

\* C23 as claimed: every send operation validates the sender and the
\* recipient against the phone predicate before it issues a request, and
\* fails with an error that names the offending value and says whether it is
\* the `from` or the `to` number; when both are invalid the sender error is
\* the one reported.
C23_PhoneErrorAlwaysReported ==
  call # NoCall =>
    /\ Posted => validatePhoneNumber(CallSender)
                   /\ validatePhoneNumber(CallRecipient)
    /\ ~validatePhoneNumber(CallSender) => SenderErrorReported
    /\ (validatePhoneNumber(CallSender) /\ ~validatePhoneNumber(CallRecipient))
         => RecipientErrorReported

\* C23, amended: no request is issued unless the sender and the recipient
\* satisfy the phone predicate; a call with an invalid number fails with an
\* error that names the offending value and says whether it is the `from` or
\* the `to` number, the sender error when both are invalid; except that the
\* interactive convenience senders validate the buttons first, so that a call
\* of theirs with an illegal button set fails with the button error instead.
C23_PhoneNumbersValidated ==
  call # NoCall =>
    LET buttonsFirst == InteractiveSender /\ IllegalButtonSet(call.input.buttons)
    IN
    /\ Posted => validatePhoneNumber(CallSender)
                   /\ validatePhoneNumber(CallRecipient)
    /\ (~buttonsFirst /\ ~validatePhoneNumber(CallSender))
         => SenderErrorReported
    /\ (~buttonsFirst /\ validatePhoneNumber(CallSender)
          /\ ~validatePhoneNumber(CallRecipient))
         => RecipientErrorReported
    /\ buttonsFirst =>
         /\ Threw
         /\ ~Has(call.error, "phone")

\* A template call with both numbers invalid reported the sender
C23_Witness ==
  /\ call.op = "sendTemplateMessage"
  /\ ~validatePhoneNumber(CallSender)
  /\ ~validatePhoneNumber(CallRecipient)
  /\ SenderErrorReported

(***************************************************************************)
(* C24.  The logging options never change what is sent or whether it is   *)
(* sent: for every message and every two settings of the developer        *)
(* options, a send call has the same outcome, the same validation error   *)
(* or the same request body.                                               *)
(***************************************************************************)
\* The call at hand repeats the call that settled last, sender included
RepeatsPrevious ==
  /\ call # NoCall
  /\ call.op # "constructor"
  /\ previous # NoCall
  /\ previous.op = call.op
  /\ previous.input = call.input
  /\ previous.from = call.from

C24_LoggingChangesNothing ==
  RepeatsPrevious =>
    /\ call.status = previous.status
    /\ Has(call, "error") = Has(previous, "error")
    /\ Has(call, "error") => call.error = previous.error
    /\ (requests # <<>>) = Has(previous, "data")
    /\ requests # <<>> => Len(requests) = 1 /\ SentData = previous.data

\* The same text was sent with request logging off and then on
C24_Witness ==
  /\ RepeatsPrevious
  /\ call.op = "sendTextMessage"
  /\ Posted
  /\ ~previous.logging.enableRequestLogging
  /\ httpClient.developerOptions.enableRequestLogging
  /\ SentData = previous.data

(***************************************************************************)
(* C25.  After any sequence of updateConfig and updateDeveloperOptions    *)
(* calls the transport client mirrors the configuration: the API key it   *)
(* sends is config.apiKey and its default timeout is config.timeout, so   *)
(* that an updateConfig that changes the timeout, or sets the key to the  *)
(* empty string, shows in the client used for the next request.           *)
(***************************************************************************)
C25_ClientMirrorsConfiguration ==
  /\ Constructed =>
       /\ httpClient.apiKey = config.apiKey
       /\ httpClient.client.headers.Authorization
            = Authorization(config.apiKey)
       /\ httpClient.defaultTimeout = config.timeout
       /\ httpClient.client.timeout = config.timeout
  /\ (Posted /\ call.op = "sendTextMessage") =>
       /\ requests[1].headers.Authorization = Authorization(config.apiKey)
       /\ requests[1].timeout = config.timeout

(***************************************************************************)
(* C26.  A non-empty apiKey and a non-empty `from` are an invariant of    *)
(* the configuration: after any sequence of updateConfig calls both are   *)
(* still non-empty, an update that would make either of them empty being  *)
(* rejected with the configuration unchanged.                              *)
(***************************************************************************)
C26_KeyAndSenderStayNonEmpty ==
  Constructed =>
    /\ Has(config, "apiKey")
    /\ config.apiKey # ""
    /\ Has(config, "from")
    /\ config.from # <<>>

(***************************************************************************)
(* C27.  Every button component that passes template validation is        *)
(* counted in exactly one of the four sub-type groups and has a defined   *)
(* index and a defined first-parameter text: a button whose sub_type is   *)
(* missing or unrecognized, whose index is missing or which has no        *)
(* parameters is rejected and does not slip past the count and            *)
(* exclusivity rules.                                                      *)
(***************************************************************************)
WellFormedButton(btn) ==
  /\ Cardinality({subType \in SubTypes : SubTypeIs(btn, subType)}) = 1
  /\ IndexOf(btn) # Undefined
  /\ FirstTextOf(btn) # Undefined

C27_AcceptedButtonsAreWellFormed ==
  SentTemplate =>
    \A i \in ButtonPositions(SentTemplateComponents) :
      WellFormedButton(SentTemplateComponents[i])

(***************************************************************************)
(* C28.  validatePhoneNumber accepts exactly the strings made of a        *)
(* country prefix of one to four digits, the first of them non-zero,      *)
(* followed by a ten-digit number whose first digit is non-zero: eleven   *)
(* to fourteen characters, digits only.  Every other string is rejected,  *)
(* and the additional `length <= 15` test never changes the result.       *)
(***************************************************************************)
DecimalDigits == {"0", "1", "2", "3", "4", "5", "6", "7", "8", "9"}

PrefixedTenDigitNumber(phone) ==
  /\ Len(phone) \in 11..14
  /\ \A i \in 1..Len(phone) : phone[i] \in DecimalDigits
  /\ phone[1] # "0"
  /\ phone[Len(phone) - 9] # "0"

MsgNoButton == "Interactive message must have at least one button"
MsgTooManyInteractiveButtons == "Interactive message can have maximum 3 buttons"
MsgDuplicateIds == "Interactive message buttons must have unique IDs"
MsgDuplicateTitles == "Interactive message buttons must have unique titles"

C29_InteractiveChecksInOrder ==
  (call # NoCall /\ InteractiveSender) =>
    LET buttons == call.input.buttons IN
    IF Len(buttons) = 0 THEN ErrorIs(MsgNoButton)
    ELSE IF Len(buttons) > 3 THEN ErrorIs(MsgTooManyInteractiveButtons)
    ELSE IF DuplicateIds(buttons) THEN ErrorIs(MsgDuplicateIds)
    ELSE IF DuplicateTitles(buttons) THEN ErrorIs(MsgDuplicateTitles)
    ELSE IF ~validatePhoneNumber(CallSender) THEN SenderErrorReported
    ELSE IF ~validatePhoneNumber(CallRecipient) THEN RecipientErrorReported
    ELSE Posted /\ Len(requests) = 1

\* Duplicate titles and an invalid recipient: the titles were reported
C29_Witness ==
  /\ call # NoCall
  /\ InteractiveSender
  /\ Len(call.input.buttons) \in 1..3
  /\ ~DuplicateIds(call.input.buttons)
  /\ DuplicateTitles(call.input.buttons)
  /\ ~validatePhoneNumber(CallRecipient)
  /\ ErrorIs(MsgDuplicateTitles)

(***************************************************************************)
(* C30.  sendTemplateMessage validates components only when a component   *)
(* list is supplied: with `components` omitted, or with an empty list, a  *)
(* call whose sender, recipient and language code are valid always issues *)
(* exactly one request, and the `components` field of the template it     *)
(* emits is what the caller passed, absent or empty.                       *)
(***************************************************************************)
TemplateWithoutComponents ==
  /\ call.op = "sendTemplateMessage"
  /\ validatePhoneNumber(call.from)
  /\ validatePhoneNumber(call.input.to)
  /\ validateLanguageCode(call.input.langCode)
  /\ (~Has(call.input, "components") \/ call.input.components = <<>>)

C30_NoComponentsAlwaysSent ==
  TemplateWithoutComponents =>
    /\ Posted
    /\ Len(requests) = 1
    /\ Has(SentData.template, "components") = Has(call.input, "components")
    /\ Has(call.input, "components") => SentData.template.components = <<>>
    /\ SentData.template.name = call.input.templateName
    /\ SentData.template.lang_code = call.input.langCode

\* A call with an empty component list was sent with the empty list
C30_Witness ==
  /\ TemplateWithoutComponents
  /\ Has(call.input, "components")
  /\ Posted
  /\ Has(SentData.template, "components")
  /\ SentData.template.components = <<>>

\* A call without the components property was sent without it
C30_WitnessOmitted ==
  /\ TemplateWithoutComponents
  /\ ~Has(call.input, "components")
  /\ Posted
  /\ ~Has(SentData.template, "components")

====
